---- MODULE Spec2Model ----
(***************************************************************************)
(* A model of synchronizer-cli (src/index.js): the container supervisor    *)
(* (start / startNightly), the image freshness check, the telemetry        *)
(* aggregator (getSystemStatus, getPerformanceData, getPointsData,          *)
(* getContainerStats), the service-unit generator (installService,         *)
(* installWebServiceFile), the web dashboard's request gate                *)
(* (authenticateRequest), two start() invocations racing for one container *)
(* name, the supervisor's event loop, the image monitor                    *)
(* (startImageMonitoring) and the web listeners (startWebGUI,              *)
(* findAvailablePort).                                                     *)
(*                                                                         *)
(* Every call to the container runtime, to systemd and to the registry API *)
(* is an external command whose outcome the environment decides; the model *)
(* draws it from a small set and records the commands issued in `cmds`.    *)
(***************************************************************************)
EXTENDS Integers, Sequences, FiniteSets, TLC

VARIABLES
    \* ---- supervisor process (start / startNightly) ----
    osHostname,     \* os.hostname()
    pc,             \* position of the supervisor process
    command,        \* "start" | "nightly": which entry point runs
    config,         \* loadConfig() result
    hostArch,       \* [platform, arch] read by os.platform() / os.arch()
    cmds,           \* container-runtime commands issued so far, in order
    imageQuery,     \* outcome of the last `docker images` query
    shouldPull,     \* result of isNewDockerImageAvailable in start()
    args,           \* argv handed to spawn('docker', args)
    handlers,       \* SIGINT/SIGTERM cleanup handler installed
    guidance,       \* which operator guidance the exit handler printed
    exitCode,       \* code passed to process.exit (meaningful when pc = "exited")
    runtimeChecks,  \* results of the checkDocker() calls made so far, in order
    ending,         \* what ended the process: [by, code, signal, stopOk]
    pulled,         \* how the `docker pull` of the launch path went: "none" | "ok" | "failed"
    \* ---- service-unit generator (installService / installWebServiceFile) ----
    binPath,        \* dockerPath / npxPath: the detected binary
    pathDirs,       \* pathDirs: the entries joined with ':' into Environment=PATH
    dockerArgs,     \* dockerArgs: the text after the binary on the ExecStart line
    \* ---- telemetry aggregator and the host it observes ----
    dockerState,    \* container runtime: "absent" | "down" (daemon unreachable) | "up"
    unit,           \* what the persisted-service probe (unit file + systemctl) yields
    running,        \* names of the worker containers currently running
    view,           \* the last aggregate view computed: [op, in, out]
    prevStatus,     \* the status() view computed just before `view`, if any
    stoppedSince,   \* no worker container ran at the status() calls held, nor between them
    \* ---- web dashboard (startWebGUI / authenticateRequest) ----
    guiConfig,      \* the config startWebGUI() loaded and its handlers close over
    savedPassword,  \* dashboardPassword in the config file, read on every request
    request,        \* the HTTP request being served: [route, auth]
    response,       \* what was sent for it: [status, challenge, body, handlerRan]
    \* ---- two start() invocations for the same container name ----
    ipc,            \* position of each invocation
    issued,         \* runtime commands each invocation issued, in order
    container,      \* the named container in the runtime: [running, owner]
    iexit,          \* exit code of each invocation (meaningful when it has exited)
    \* ---- the supervisor's event loop once a child process exists ----
    lpc,            \* "idle" | "running" (launched) | "attached" | "exited"
    queue,          \* events delivered to the process and not yet dispatched
    lend,           \* how the process ended: [mode, by, code, sig, o, stopOk, pending]
    \* ---- image monitor (startImageMonitoring) ----
    mpc,            \* "idle" | "initial" | "waiting" | "checking" | "exited"
    checkCount,     \* checkCount: performCheck() runs started
    updatesFound,   \* updatesFound of the last performCheck() run
    clock,          \* minutes since the monitor was started, in steps of Step
    nextDue,        \* when the interval timer fires next (0: no timer armed)
    interrupted,    \* an interrupt signal was delivered and is not yet handled
    mend,           \* how the monitor ended: [by, code, at]
    \* ---- web listeners (startWebGUI / findAvailablePort) ----
    wpc,            \* "idle" | "ports" | "listening" | "failed" | "exited"
    busy,           \* ports another process holds
    guiPort,        \* guiPort: result of the first port search (0: none)
    metricsPort,    \* metricsPort: result of the second port search (0: none)
    searches,       \* the findAvailablePort() calls made: [start, ok, port, attempts]
    bound,          \* ports each listener is bound to: [gui, metrics] (0: not bound)
    closed,         \* listeners on which close() was called
    wend            \* how the web process ended: [by, code]

supervisorVars == <<osHostname, pc, command, config, hostArch, cmds, imageQuery,
                    shouldPull, args, handlers, guidance, exitCode,
                    runtimeChecks, ending, pulled>>

unitVars == <<binPath, pathDirs, dockerArgs>>

telemetryVars == <<dockerState, unit, running, view, prevStatus, stoppedSince>>

dashboardVars == <<guiConfig, savedPassword, request, response>>

raceVars == <<ipc, issued, container, iexit>>

loopVars == <<lpc, queue, lend>>

monitorVars == <<mpc, checkCount, updatesFound, clock, nextDue, interrupted, mend>>

webVars == <<wpc, busy, guiPort, metricsPort, searches, bound, closed, wend>>

\* The subsystems that the supervisor, the unit generator, the telemetry
\* aggregator and the request gate leave alone.
restVars == <<raceVars, loopVars, monitorVars, webVars>>

vars == <<supervisorVars, unitVars, telemetryVars, dashboardVars, restVars>>

----------------------------------------------------------------------------
(* JavaScript values *)

\* A field absent from the JSON config reads as undefined.
Undefined == "undefined"

\* JS truthiness of a string-or-undefined value: `if (config.wallet)`.
Truthy(v) == v # Undefined /\ v # ""

\* `a || b` on string-or-undefined values.
OrElse(a, b) == IF Truthy(a) THEN a ELSE b

----------------------------------------------------------------------------
(* Bounds and input domains *)

\* Longest `docker images --format {{.ID}}` output drawn, in characters.
MaxOut == 2

Hostnames == {"hostA", "hostB"}
Keys      == {Undefined, "", "11111111-2222-4333-8444-555555555555"}
Wallets   == {Undefined, "", "0xAB"}
Accounts  == {Undefined, "", "acct-1"}
Depins    == {Undefined, "wss://custom.example/depin"}

\* Configs as loadConfig() can return them: init() always writes syncHash,
\* hostname and depin; a hand-edited or Enterprise-API config may lack fields.
Configs ==
    [key : Keys, hostname : Hostnames \cup {Undefined}, wallet : Wallets,
     account : Accounts, depin : Depins, syncHash : {"synq-0123456789ab"}]

\* os.platform() and os.arch() values (Node's documented sets, cut down).
Platforms == {"linux", "darwin", "win32"}
Archs     == {"arm64", "x64", "riscv64"}

\* Output characters of the local image query: whitespace and id characters.
OutChars == {" ", "a"}

RECURSIVE SeqsUpTo(_, _)
SeqsUpTo(S, n) ==
    IF n = 0 THEN {<<>>}
    ELSE LET shorter == SeqsUpTo(S, n - 1)
         IN  shorter \cup {Append(s, c) : s \in {t \in shorter : Len(t) = n - 1}, c \in S}

\* A `docker images` query either fails (execSync throws) or prints text.
ImageQueryOutcomes ==
    {[ok |-> FALSE, out |-> <<>>]} \cup {[ok |-> TRUE, out |-> o] : o \in SeqsUpTo(OutChars, MaxOut)}

----------------------------------------------------------------------------
(* Image freshness check *)

IsSpace(c) == c = " "

\* String.prototype.trim on a sequence of characters.
RECURSIVE TrimLeft(_)
TrimLeft(s) == IF s # <<>> /\ IsSpace(Head(s)) THEN TrimLeft(Tail(s)) ELSE s

RECURSIVE TrimRight(_)
TrimRight(s) ==
    IF s # <<>> /\ IsSpace(s[Len(s)]) THEN TrimRight(SubSeq(s, 1, Len(s) - 1)) ELSE s

Trim(s) == TrimRight(TrimLeft(s))

\* Mutant: a failed local-image query is taken as "image present".
isNewDockerImageAvailable_ErrorMeansPresent(q) ==
    IF q.ok THEN Trim(q.out) = <<>> ELSE FALSE

\* isNewDockerImageAvailable(imageName): q is the outcome of
\* `docker images <imageName> --format "{{.ID}}"`.
isNewDockerImageAvailable(q) ==
    IF ~q.ok THEN TRUE                  \* catch: no local image found
    ELSE IF Trim(q.out) = <<>> THEN TRUE \* !localImageId
    ELSE FALSE                           \* local image present: no separate pull

----------------------------------------------------------------------------
(* Supervisor: start() and startNightly() *)

Cmd(c, t) == [cmd |-> c, target |-> t]

ContainerName(c) == IF c = "nightly" THEN "synchronizer-nightly" ELSE "synchronizer-cli"

ImageName(c) ==
    IF c = "nightly" THEN "cdrakep/synqchronizer-test-fixed:latest"
    ELSE "cdrakep/synqchronizer:latest"

\* `cli-${packageJson.version}/docker-2.1.3` (+ "-nightly" for startNightly)
LauncherWithVersion(c) ==
    IF c = "nightly" THEN "cli-<version>/docker-2.1.3-nightly"
    ELSE "cli-<version>/docker-2.1.3"

DefaultDepin == "wss://api.multisynq.io/depin"

\* Mutant: the hostname binding is not checked.
ConfigUsable_NoHostCheck(cfg, host) == Truthy(cfg.key)

\* The two guards at the top of start(): a key is present and the config was
\* created on this host.  (`!==` on a missing hostname is a mismatch.)
ConfigUsable(cfg, host) == Truthy(cfg.key) /\ cfg.hostname = host

\* Platform detection.
DockerPlatform(platform, arch) ==
    IF platform = "linux" THEN
        IF arch \in {"arm64", "aarch64"} THEN "linux/arm64"
        ELSE "linux/amd64"      \* x64, x86_64, and the default for the rest
    ELSE IF platform = "darwin" THEN
        IF arch = "arm64" THEN "linux/arm64" ELSE "linux/amd64"
    ELSE "linux/amd64"

\* Mutant: the wallet flag is always emitted, with a placeholder when unset.
WalletArgs_Placeholder(cfg) == <<"--wallet", OrElse(cfg.wallet, "[none]")>>

\* if (config.wallet) { args.push('--wallet'); args.push(config.wallet); }
WalletArgs(cfg) == IF Truthy(cfg.wallet) THEN <<"--wallet", cfg.wallet>> ELSE <<>>

\* if (config.account) { args.push('--account'); args.push(config.account); }
AccountArgs(cfg) == IF Truthy(cfg.account) THEN <<"--account", cfg.account>> ELSE <<>>

\* Mutant: --key is pushed before --launcher.
BuildArgs_KeyFirst(c, dockerPlatform, cfg) ==
    <<"run", "--rm", "--name", ContainerName(c), "--pull", "always",
      "--platform", dockerPlatform, ImageName(c)>>
    \o <<"--depin", OrElse(cfg.depin, DefaultDepin)>>
    \o <<"--sync-name", cfg.syncHash>>
    \o <<"--key", cfg.key>>
    \o <<"--launcher", LauncherWithVersion(c)>>
    \o WalletArgs(cfg) \o AccountArgs(cfg)

\* The argv built between "Create Docker command" and spawn().
BuildArgs(c, dockerPlatform, cfg) ==
    <<"run", "--rm", "--name", ContainerName(c), "--pull", "always",
      "--platform", dockerPlatform, ImageName(c)>>
    \o <<"--depin", IF Truthy(cfg.depin) THEN cfg.depin ELSE DefaultDepin>>
    \o <<"--sync-name", cfg.syncHash>>
    \o <<"--launcher", LauncherWithVersion(c)>>
    \o <<"--key", cfg.key>>
    \o WalletArgs(cfg)
    \o AccountArgs(cfg)

NoConfig ==
    [key |-> Undefined, hostname |-> Undefined, wallet |-> Undefined,
     account |-> Undefined, depin |-> Undefined, syncHash |-> Undefined]

NoArch == [platform |-> "linux", arch |-> "x64"]
NoQuery == [ok |-> FALSE, out |-> <<>>]

\* How the process came to its end: by is the handler or guard that called
\* process.exit; code and signal are the (code, signal) pair of a child's
\* 'exit' event (code is null, here 0, when signal is set); sig and stopOk
\* belong to the cleanup handler.
EndedBy(by, code, signal, stopOk) ==
    [by |-> by, code |-> code, signal |-> signal, stopOk |-> stopOk]

NoEnding == EndedBy("none", 0, "none", FALSE)

InitSupervisor ==
    /\ osHostname = "hostA"
    /\ pc = "idle"
    /\ command = "start"
    /\ config = NoConfig
    /\ hostArch = NoArch
    /\ cmds = <<>>
    /\ imageQuery = NoQuery
    /\ shouldPull = FALSE
    /\ args = <<>>
    /\ handlers = FALSE
    /\ guidance = "none"
    /\ exitCode = 0
    /\ runtimeChecks = <<>>
    /\ ending = NoEnding
    /\ pulled = "none"

\* process.exit(code)
Exit(code) == pc' = "exited" /\ exitCode' = code

\* Entry: loadConfig() and the two config guards.
Start(c, cfg) ==
    /\ pc = "idle"
    /\ command' = c
    /\ config' = cfg
    /\ IF ConfigUsable(cfg, osHostname)
       THEN pc' = "checkDocker" /\ exitCode' = exitCode
       ELSE Exit(1)
    /\ ending' = IF ConfigUsable(cfg, osHostname) THEN ending
                 ELSE EndedBy("config", 0, "none", FALSE)
    /\ UNCHANGED <<osHostname, pulled, runtimeChecks, hostArch, cmds, imageQuery, shouldPull, args,
                   handlers, guidance,
                   unitVars, telemetryVars, dashboardVars, restVars>>

\* checkDocker(): `docker --version`.
CheckDocker(ok) ==
    /\ pc = "checkDocker"
    /\ cmds' = Append(cmds, Cmd("version", ""))
    /\ runtimeChecks' = Append(runtimeChecks, ok)
    /\ pc' = IF ok THEN "ps" ELSE "prompt"
    /\ UNCHANGED <<osHostname, pulled, ending, command, config, hostArch, imageQuery, shouldPull,
                   args, handlers, guidance, exitCode,
                   unitVars, telemetryVars, dashboardVars, restVars>>

\* The install prompt: declining exits 1; accepting runs installDocker().
Prompt(install) ==
    /\ pc = "prompt"
    /\ IF install THEN pc' = "recheck" /\ exitCode' = exitCode ELSE Exit(1)
    /\ ending' = IF install THEN ending ELSE EndedBy("declined", 0, "none", FALSE)
    /\ UNCHANGED <<osHostname, pulled, runtimeChecks, command, config, hostArch, cmds, imageQuery,
                   shouldPull, args, handlers, guidance,
                   unitVars, telemetryVars, dashboardVars, restVars>>

\* Mutant: the result of the re-check is ignored.
Recheck_Ignored(ok) ==
    /\ pc = "recheck"
    /\ cmds' = Append(cmds, Cmd("version", ""))
    /\ pc' = "ps"
    /\ runtimeChecks' = Append(runtimeChecks, ok)
    /\ UNCHANGED <<osHostname, pulled, ending, exitCode, command, config, hostArch, imageQuery,
                   shouldPull, args, handlers, guidance,
                   unitVars, telemetryVars, dashboardVars, restVars>>

\* "Check again after installation": a second checkDocker(), not retried.
Recheck(ok) ==
    /\ pc = "recheck"
    /\ cmds' = Append(cmds, Cmd("version", ""))
    /\ IF ok THEN pc' = "ps" /\ exitCode' = exitCode ELSE Exit(1)
    /\ runtimeChecks' = Append(runtimeChecks, ok)
    /\ ending' = IF ok THEN ending ELSE EndedBy("recheck", 0, "none", FALSE)
    /\ UNCHANGED <<osHostname, pulled, command, config, hostArch, imageQuery, shouldPull,
                   args, handlers, guidance,
                   unitVars, telemetryVars, dashboardVars, restVars>>

\* Mutant: the attach branch does not return and start-up goes on.
Ps_FallsThrough(outcome) ==
    /\ pc = "ps"
    /\ IF outcome = "found"
       THEN /\ cmds' = cmds \o <<Cmd("ps", ContainerName(command)),
                                 Cmd("logs", ContainerName(command))>>
            /\ handlers' = TRUE
       ELSE /\ cmds' = Append(cmds, Cmd("ps", ContainerName(command)))
            /\ handlers' = handlers
    /\ pc' = "freshness"
    /\ UNCHANGED <<osHostname, pulled, runtimeChecks, ending, command, config, hostArch,
                   imageQuery, shouldPull, args, guidance, exitCode,
                   unitVars, telemetryVars, dashboardVars, restVars>>

\* `docker ps --filter name=<containerName>`: "found" attaches to the running
\* container's logs and installs the stop handler; "none" and "error" (the
\* empty catch) continue with the normal startup.
Ps(outcome) ==
    /\ pc = "ps"
    /\ IF outcome = "found"
       THEN /\ cmds' = cmds \o <<Cmd("ps", ContainerName(command)),
                                 Cmd("logs", ContainerName(command))>>
            /\ handlers' = TRUE
            /\ pc' = "attached"
       ELSE /\ cmds' = Append(cmds, Cmd("ps", ContainerName(command)))
            /\ handlers' = handlers
            /\ pc' = "freshness"
    /\ UNCHANGED <<osHostname, pulled, runtimeChecks, ending, command, config, hostArch, imageQuery, shouldPull,
                   args, guidance, exitCode,
                   unitVars, telemetryVars, dashboardVars, restVars>>

\* Platform detection and the freshness check (one `docker images` query).
Freshness(platform, arch, q) ==
    /\ pc = "freshness"
    /\ hostArch' = [platform |-> platform, arch |-> arch]
    /\ imageQuery' = q
    /\ cmds' = Append(cmds, Cmd("images", ImageName(command)))
    /\ shouldPull' = isNewDockerImageAvailable(q)
    /\ pc' = IF isNewDockerImageAvailable(q) THEN "pull" ELSE "launch"
    /\ UNCHANGED <<osHostname, pulled, runtimeChecks, ending, command, config, args, handlers, guidance, exitCode,
                   unitVars, telemetryVars, dashboardVars, restVars>>

\* Mutant: a failed pull ends start-up with exit code 1.
Pull_FailureAborts(ok) ==
    /\ pc = "pull"
    /\ cmds' = Append(cmds, Cmd("pull", ImageName(command)))
    /\ pulled' = IF ok THEN "ok" ELSE "failed"
    /\ IF ok THEN pc' = "launch" /\ exitCode' = exitCode ELSE Exit(1)
    /\ UNCHANGED <<osHostname, runtimeChecks, ending, command, config, hostArch, imageQuery, shouldPull,
                   args, handlers, guidance,
                   unitVars, telemetryVars, dashboardVars, restVars>>

\* `docker pull <imageName>`: a failure is logged and start-up continues.
Pull(ok) ==
    /\ pc = "pull"
    /\ cmds' = Append(cmds, Cmd("pull", ImageName(command)))
    /\ pulled' = IF ok THEN "ok" ELSE "failed"
    /\ pc' = "launch"
    /\ UNCHANGED <<osHostname, runtimeChecks, ending, command, config, hostArch, imageQuery, shouldPull,
                   args, handlers, guidance, exitCode,
                   unitVars, telemetryVars, dashboardVars, restVars>>

\* Build argv, spawn `docker run ...`, install the stop handler.
Launch ==
    /\ pc = "launch"
    /\ args' = BuildArgs(command, DockerPlatform(hostArch.platform, hostArch.arch), config)
    /\ cmds' = Append(cmds, Cmd("run", ContainerName(command)))
    /\ handlers' = TRUE
    /\ pc' = "running"
    /\ UNCHANGED <<osHostname, pulled, runtimeChecks, ending, command, config, hostArch, imageQuery, shouldPull,
                   guidance, exitCode,
                   unitVars, telemetryVars, dashboardVars, restVars>>

\* Exit codes the spawned docker client is drawn to end with.
ChildCodes == {0, 1, 125, 126}

\* Guidance printed by proc.on('exit').
Guidance(code) ==
    IF code = 126 THEN "permission"
    ELSE IF code = 125 THEN "platform"
    ELSE IF code # 0 THEN "generic"
    ELSE "none"

\* How a spawned docker client ends: with an exit code, or killed by a
\* signal, in which case the 'exit' event's code is null.
ChildOutcomes ==
    {[signal |-> "none", code |-> c] : c \in ChildCodes}
    \cup {[signal |-> "SIGKILL", code |-> 0]}

\* The branch proc.on('exit') takes: null is neither 126 nor 125, and
\* null !== 0 holds.
GuidanceOf(o) == IF o.signal # "none" THEN "generic" ELSE Guidance(o.code)

\* process.exit(code) with the event's code: null exits with the default
\* code 0.
ExitCodeOf(o) == IF o.signal # "none" THEN 0 ELSE o.code

\* proc.on('exit', code => ... process.exit(code)) of the launched container.
ChildExit(o) ==
    /\ pc = "running"
    /\ guidance' = GuidanceOf(o)
    /\ Exit(ExitCodeOf(o))
    /\ ending' = EndedBy("child", o.code, o.signal, FALSE)
    /\ UNCHANGED <<osHostname, pulled, runtimeChecks, command, config, hostArch, cmds, imageQuery,
                   shouldPull, args, handlers,
                   unitVars, telemetryVars, dashboardVars, restVars>>

\* logProc.on('exit', code => process.exit(code)) on the attach path.
LogExit(o) ==
    /\ pc = "attached"
    /\ Exit(ExitCodeOf(o))
    /\ ending' = EndedBy("logs", o.code, o.signal, FALSE)
    /\ UNCHANGED <<osHostname, pulled, runtimeChecks, command, config, hostArch, cmds, imageQuery,
                   shouldPull, args, handlers, guidance,
                   unitVars, telemetryVars, dashboardVars, restVars>>

\* proc.on('error'): the docker binary could not be spawned.
ChildError ==
    /\ pc = "running"
    /\ Exit(1)
    /\ ending' = EndedBy("error", 0, "none", FALSE)
    /\ UNCHANGED <<osHostname, pulled, runtimeChecks, command, config, hostArch, cmds, imageQuery,
                   shouldPull, args, handlers, guidance,
                   unitVars, telemetryVars, dashboardVars, restVars>>

\* Mutant: a failed stop command turns the exit code into 1.
CleanupExitCode_FailsOnError(stopOk) == IF stopOk THEN 0 ELSE 1

\* cleanup(): the try/catch around `docker stop` is followed by
\* process.exit(0) on both paths.
CleanupExitCode(stopOk) == 0

\* cleanup(): SIGINT / SIGTERM -> `docker stop <containerName>`, exit 0
\* whether or not the stop command succeeded.
Signal(sig, stopOk) ==
    /\ pc \in {"attached", "running"}
    /\ handlers
    /\ cmds' = Append(cmds, Cmd("stop", ContainerName(command)))
    /\ Exit(CleanupExitCode(stopOk))
    /\ ending' = EndedBy("signal", 0, sig, stopOk)
    /\ UNCHANGED <<osHostname, pulled, runtimeChecks, command, config, hostArch, imageQuery, shouldPull,
                   args, handlers, guidance,
                   unitVars, telemetryVars, dashboardVars, restVars>>

NextSupervisor ==
    \/ \E c \in {"start", "nightly"}, cfg \in Configs : Start(c, cfg)
    \/ \E ok \in BOOLEAN : CheckDocker(ok)
    \/ \E install \in BOOLEAN : Prompt(install)
    \/ \E ok \in BOOLEAN : Recheck(ok)
    \/ \E outcome \in {"found", "none", "error"} : Ps(outcome)
    \/ \E p \in Platforms, a \in Archs, q \in ImageQueryOutcomes : Freshness(p, a, q)
    \/ \E ok \in BOOLEAN : Pull(ok)
    \/ Launch
    \/ \E o \in ChildOutcomes : ChildExit(o)
    \/ \E o \in ChildOutcomes : LogExit(o)
    \/ ChildError
    \/ \E sig \in {"SIGINT", "SIGTERM"}, stopOk \in BOOLEAN : Signal(sig, stopOk)

InitUnit == binPath = <<>> /\ pathDirs = <<>> /\ dockerArgs = <<>>

\* Substrings of `systemctl status` output that getSystemStatus() looks for.
UnitMarkers == {"active (running)", "inactive (dead)", "failed", "enabled", "since"}

\* Outputs of `systemctl status synchronizer-cli`, as the set of markers each
\* contains: an active enabled unit, an active unit whose log tail shows a
\* failure, a stopped enabled unit, a failed unit, a unit in another state
\* (activating).
UnitOutputs ==
    { {"active (running)", "enabled", "since"}, {"active (running)", "failed", "since"},
      {"inactive (dead)", "enabled", "since"}, {"failed"}, {} }

\* The persisted-service probe: the unit file may not exist, systemctl may
\* fail (execSync throws), or it prints one of the outputs.
UnitProbes ==
    {[exists |-> FALSE, ok |-> FALSE, out |-> {}], [exists |-> TRUE, ok |-> FALSE, out |-> {}]}
    \cup {[exists |-> TRUE, ok |-> TRUE, out |-> o] : o \in UnitOutputs}

WorkerNames == {"synchronizer-cli", "synchronizer-nightly"}

NoView == [op |-> "none"]

\* A host on which neither the runtime nor the persisted service is installed.
InitTelemetry ==
    /\ dockerState = "absent"
    /\ unit = [exists |-> FALSE, ok |-> FALSE, out |-> {}]
    /\ running = {}
    /\ view = NoView
    /\ prevStatus = NoView
    /\ stoppedSince = FALSE

\* No HTTP request is being served.
NoHttpRequest == [route |-> "none"]

NoResponse == [status |-> 0]

\* dashboardPassword as the config file holds it: absent, or a text.
NoPassword == [set |-> FALSE, text |-> <<>>]

\* The dashboard is not running and the config file holds no password.
InitDashboard ==
    /\ guiConfig = [started |-> FALSE, key |-> Undefined, wallet |-> Undefined]
    /\ savedPassword = NoPassword
    /\ request = NoHttpRequest
    /\ response = NoResponse

\* The two start() invocations of one operator, e.g. two terminals.
Invocations == {1, 2}

InitRace ==
    /\ ipc = [p \in Invocations |-> "idle"]
    /\ issued = [p \in Invocations |-> <<>>]
    /\ container = [running |-> FALSE, owner |-> 0]
    /\ iexit = [p \in Invocations |-> 0]

NoOutcome == [signal |-> "none", code |-> 0]

\* An event of the process: kind is "signal" (sig set), "exit" (the child's
\* 'exit' event, o its (code, signal) pair) or "error" (the child's 'error'
\* event).
Event(kind, sig, o) == [kind |-> kind, sig |-> sig, o |-> o]

LoopEnded(mode, by, code, sig, o, stopOk, pending) ==
    [mode |-> mode, by |-> by, code |-> code, sig |-> sig, o |-> o,
     stopOk |-> stopOk, pending |-> pending]

InitLoop ==
    /\ lpc = "idle"
    /\ queue = <<>>
    /\ lend = LoopEnded("idle", "none", 0, "none", NoOutcome, FALSE, <<>>)

MonitorEnded(by, code, at) == [by |-> by, code |-> code, at |-> at]

InitMonitor ==
    /\ mpc = "idle"
    /\ checkCount = 0
    /\ updatesFound = 0
    /\ clock = 0
    /\ nextDue = 0
    /\ interrupted = FALSE
    /\ mend = MonitorEnded("none", 0, 0)

WebEnded(by, code) == [by |-> by, code |-> code]

InitWeb ==
    /\ wpc = "idle"
    /\ busy = {}
    /\ guiPort = 0
    /\ metricsPort = 0
    /\ searches = <<>>
    /\ bound = [gui |-> 0, metrics |-> 0]
    /\ closed = {}
    /\ wend = WebEnded("none", 0)

Init ==
    /\ InitSupervisor /\ InitUnit /\ InitTelemetry /\ InitDashboard
    /\ InitRace /\ InitLoop /\ InitMonitor /\ InitWeb

SpecSupervisor == Init /\ [][NextSupervisor]_vars

----------------------------------------------------------------------------
(* Properties of the supervisor *)

Issued(c) == \E i \in DOMAIN cmds : cmds[i].cmd = c

InArgs(x) == \E i \in DOMAIN args : args[i] = x

\* C1: a config with a key whose hostname is not this host's makes start() and
\* startNightly() exit with code 1 before any container-runtime command
\* (version probe, ps, images, pull, run, logs, stop) is issued.
C1_ForeignConfigRefused ==
    (pc # "idle" /\ Truthy(config.key) /\ config.hostname # osHostname)
        => (pc = "exited" /\ exitCode = 1 /\ cmds = <<>>)

C1_Witness ==
    /\ pc = "exited" /\ command = "nightly"
    /\ Truthy(config.key) /\ config.hostname = "hostB" /\ cmds = <<>>

\* An image id is any non-whitespace text in the query's output.
YieldsImageId(q) == q.ok /\ \E i \in DOMAIN q.out : q.out[i] # " "

C8_OptionalFlags ==
    Issued("run") =>
        /\ InArgs("--wallet") <=> (config.wallet # Undefined /\ config.wallet # "")
        /\ InArgs("--account") <=> (config.account # Undefined /\ config.account # "")
        /\ \A i \in DOMAIN args :
              /\ args[i] = "--wallet" => (i < Len(args) /\ args[i + 1] = config.wallet)
              /\ args[i] = "--account" => (i < Len(args) /\ args[i + 1] = config.account)
              /\ args[i] \in {"--depin", "--sync-name", "--launcher", "--key",
                               "--wallet", "--account"}
                    => (i < Len(args) /\ args[i + 1] \notin {"", Undefined, "[none]"})

C8_Witness ==
    /\ Issued("run") /\ config.wallet = "" /\ config.account = "acct-1"
    /\ ~InArgs("--wallet") /\ InArgs("--account")

\* The argv the claim prescribes, written out flag by flag.
ExpectedArgv(name, p, image, launcher) ==
    <<"run", "--rm", "--name", name, "--pull", "always", "--platform", p, image,
      "--depin", IF config.depin \in {Undefined, ""} THEN DefaultDepin ELSE config.depin,
      "--sync-name", config.syncHash, "--launcher", launcher, "--key", config.key>>
    \o (IF config.wallet \in {Undefined, ""} THEN <<>> ELSE <<"--wallet", config.wallet>>)
    \o (IF config.account \in {Undefined, ""} THEN <<>> ELSE <<"--account", config.account>>)

\* C9: with a config valid for this host, the runtime present and no container
\* of the name running, the launch argv is, in this order: run, --rm,
\* --name <name>, --pull always, --platform <p>, <image>, --depin <config.depin
\* or the default>, --sync-name <syncHash>, --launcher <id>, --key <key>, then
\* --wallet <wallet> if set, then --account <account> if set; <p> is
\* linux/arm64 only on an arm64 host and linux/amd64 for every other
\* architecture.
C9_LaunchArgv ==
    Issued("run") =>
        /\ config.hostname = osHostname /\ Truthy(config.key)
        /\ ~Issued("logs")
        /\ \E p \in {"linux/arm64", "linux/amd64"} :
              /\ p = "linux/arm64" => hostArch.arch = "arm64"
              /\ hostArch.arch # "arm64" => p = "linux/amd64"
              /\ args = IF command = "nightly"
                        THEN ExpectedArgv("synchronizer-nightly", p,
                                          "cdrakep/synqchronizer-test-fixed:latest",
                                          "cli-<version>/docker-2.1.3-nightly")
                        ELSE ExpectedArgv("synchronizer-cli", p,
                                          "cdrakep/synqchronizer:latest",
                                          "cli-<version>/docker-2.1.3")

C9_Witness ==
    /\ pc = "running" /\ hostArch = [platform |-> "darwin", arch |-> "arm64"]
    /\ config.wallet = "0xAB" /\ config.depin = Undefined
    /\ Len(args) = 19 /\ args[8] = "linux/arm64" /\ args[18] = "--wallet"

\* C17 as stated: for every exit outcome of the launched container process
\* the supervisor exits with exactly the same exit code; guidance for 126,
\* 125 or another non-zero code does not change it, and no guidance is
\* printed for code 0.
C17_AsStated ==
    ending.by = "child" =>
        /\ ending.signal = "none" => exitCode = ending.code
        /\ (exitCode = 0) = (ending.signal = "none" /\ ending.code = 0)
        /\ exitCode = 0 => guidance = "none"
        /\ exitCode = 126 => guidance = "permission"
        /\ exitCode = 125 => guidance = "platform"

WorkerName == IF command = "nightly" THEN "synchronizer-nightly" ELSE "synchronizer-cli"

\* C18: after the supervisor has attached to or launched a container, an
\* interrupt or terminate signal makes it issue a stop command for that
\* container's name and then exit with code 0, also when the stop fails.
C18_SignalStopsThenExitsZero ==
    ending.by = "signal" =>
        /\ pc = "exited" /\ exitCode = 0
        /\ Len(cmds) >= 2
        /\ cmds[Len(cmds)] = Cmd("stop", WorkerName)
        /\ cmds[Len(cmds) - 1] \in {Cmd("logs", WorkerName), Cmd("run", WorkerName)}
        /\ Cardinality({i \in DOMAIN cmds : cmds[i].cmd = "stop"}) = 1

C18_Witness ==
    /\ ending.by = "signal" /\ ending.signal = "SIGTERM" /\ ~ending.stopOk
    /\ command = "nightly" /\ Issued("logs") /\ exitCode = 0

ContainerCommandIssued ==
    \E i \in DOMAIN cmds : cmds[i].cmd \in {"ps", "logs", "images", "pull", "run", "stop"}

\* C19: while the container runtime is not available no ps, pull, run or
\* stop command is issued and the process exits with code 1, unless the
\* operator accepts installation and the re-check succeeds.  The runtime is
\* checked at most twice; a failed re-check exits with code 1.
C19_RuntimeRequired ==
    /\ Len(runtimeChecks) <= 2
    /\ Len(runtimeChecks) = 2 => ~runtimeChecks[1]
    /\ ContainerCommandIssued =>
            runtimeChecks # <<>> /\ runtimeChecks[Len(runtimeChecks)]
    /\ runtimeChecks = <<FALSE>> =>
            /\ pc \in {"prompt", "recheck", "exited"}
            /\ pc = "exited" => exitCode = 1 /\ ending.by = "declined"
    /\ runtimeChecks = <<FALSE, FALSE>> =>
            pc = "exited" /\ exitCode = 1 /\ ending.by = "recheck"
    /\ ending.by \in {"declined", "recheck"} => exitCode = 1 /\ ~ContainerCommandIssued

C19_Witness ==
    runtimeChecks = <<FALSE, FALSE>> /\ pc = "exited" /\ exitCode = 1

\* C20: once the running-containers query has reported the container and
\* the supervisor streams its logs, no images query, pull or run command is
\* issued up to process exit; the stop handler is installed.
C20_AttachNeverLaunches ==
    Issued("logs") =>
        /\ ~Issued("images") /\ ~Issued("pull") /\ ~Issued("run")
        /\ args = <<>>
        /\ handlers
        /\ pc \in {"attached", "exited"}

C20_Witness ==
    Issued("logs") /\ pc = "exited" /\ ending.by = "logs" /\ exitCode = 1

\* C22: on the launch path the images query (the pull-or-skip decision)
\* comes before the pull and the pull before the run command; a pull is
\* issued exactly when the freshness check returned true; and once the
\* decision is taken the run command follows whatever the pull did: the
\* process does not end between the images query and the run command.
C22_PullPrecedesRun ==
    /\ Issued("pull") <=> pulled # "none"
    /\ Issued("pull") => shouldPull
    /\ Issued("run") => (Issued("pull") <=> shouldPull)
    /\ \A i, j \in DOMAIN cmds :
            /\ (cmds[i].cmd = "images" /\ cmds[j].cmd \in {"pull", "run"}) => i < j
            /\ (cmds[i].cmd = "pull" /\ cmds[j].cmd = "run") => i < j
    /\ Issued("run") => Issued("images")
    /\ (Issued("images") /\ ~Issued("pull") /\ ~Issued("run")) =>
            pc = (IF shouldPull THEN "pull" ELSE "launch")
    /\ (Issued("pull") /\ ~Issued("run")) => pc = "launch"

C22_Witness ==
    /\ pulled = "failed" /\ Issued("run") /\ command = "nightly"
    /\ pc = "running"


----------------------------------------------------------------------------
(* Service-unit generator: installService() and installWebServiceFile() *)

\* A path is the sequence of its '/'-separated components; an absolute path
\* starts with the empty component ("/usr/bin" is <<"", "usr", "bin">>).
\* path.dirname: the path without its last component, "." for a bare name.
Dirname(p) == IF Len(p) <= 1 THEN <<".">> ELSE SubSeq(p, 1, Len(p) - 1)

systemPaths ==
    << <<"", "usr", "local", "sbin">>, <<"", "usr", "local", "bin">>,
       <<"", "usr", "sbin">>, <<"", "usr", "bin">>, <<"", "sbin">>, <<"", "bin">> >>

Includes(seq, x) == \E i \in DOMAIN seq : seq[i] = x

\* Mutant: the binary's directory is prepended without the membership test.
PathDirs_AlwaysPrepend(dir) == <<dir>> \o systemPaths

\* systemPaths.includes(dir) ? systemPaths : [dir, ...systemPaths]
PathDirs(dir) == IF Includes(systemPaths, dir) THEN systemPaths ELSE <<dir>> \o systemPaths

DefaultDockerPath == <<"", "usr", "bin", "docker">>

\* Outputs of `which docker` (trimmed); <<>> is an empty output.
DockerWhichOutputs ==
    { <<>>, <<"", "usr", "bin", "docker">>, <<"", "usr", "local", "bin", "docker">>,
      <<"", "bin", "docker">>, <<"", "snap", "bin", "docker">>,
      <<"", "opt", "homebrew", "bin", "docker">>, <<"", "docker">> }

\* "Detect Docker path": `which docker` when it prints an existing file, the
\* default otherwise (also when `which` fails).
DetectDockerPath(whichOk, out, exists) ==
    IF whichOk /\ out # <<>> /\ exists THEN out ELSE DefaultDockerPath

\* Candidate npx locations, in the order detectNpxPath() tries its fallbacks.
fallbackPaths ==
    << <<"", "usr", "bin", "npx">>, <<"", "usr", "local", "bin", "npx">>,
       <<"", "opt", "homebrew", "bin", "npx">>,
       <<"", "home", "op", ".npm-global", "bin", "npx">>,
       <<"", "home", "op", ".nvm", "current", "bin", "npx">> >>

NpxWhichOutputs == { <<>>, <<"", "usr", "bin", "npx">>, <<"", "opt", "node", "bin", "npx">> }
NpmWhichOutputs == { <<>>, <<"", "sbin", "npm">>, <<"", "opt", "node", "bin", "npm">> }

\* Files fs.existsSync may report.
NpxFiles ==
    { <<"", "usr", "bin", "npx">>, <<"", "opt", "node", "bin", "npx">>,
      <<"", "sbin", "npx">>, <<"", "home", "op", ".nvm", "current", "bin", "npx">> }

\* npmPath.replace(/npm$/, 'npx')
NpmToNpx(p) ==
    IF p # <<>> /\ p[Len(p)] = "npm" THEN [p EXCEPT ![Len(p)] = "npx"] ELSE p

RECURSIVE FirstExisting(_, _, _)
FirstExisting(seq, i, existing) ==
    IF i > Len(seq) THEN <<"npx">>                \* last resort: assume it is in PATH
    ELSE IF seq[i] \in existing THEN seq[i]
    ELSE FirstExisting(seq, i + 1, existing)

\* detectNpxPath(): `which npx`, then npm's sibling, then the fallbacks.
detectNpxPath(npxOk, npxOut, npmOk, npmOut, existing) ==
    IF npxOk /\ npxOut # <<>> /\ npxOut \in existing THEN npxOut
    ELSE IF npmOk /\ npmOut # <<>> /\ NpmToNpx(npmOut) \in existing THEN NpmToNpx(npmOut)
    ELSE FirstExisting(fallbackPaths, 1, existing)

\* Configs the unit commands are run with; neither command reads the hostname.
\* A wallet as the init prompt accepts it (any non-empty input): here one
\* with a blank in it.
BlankWallet == "0xAB CD"

UnitConfigs ==
    {[cfg EXCEPT !.wallet = w] :
        cfg \in {c \in Configs : c.hostname = "hostA"},
        w \in Wallets \cup {BlankWallet}}

\* A text as the sequence of its blank-free runs and its blanks.  What
\* Array.prototype.join makes of an element: undefined and '' give no text.
Blank == " "

Pieces(v) ==
    IF v = Undefined \/ v = "" THEN <<>>
    ELSE IF v = BlankWallet THEN <<"0xAB", Blank, "CD">>
    ELSE <<v>>

\* tokens.join(' ')
RECURSIVE JoinBlank(_)
JoinBlank(tokens) ==
    IF tokens = <<>> THEN <<>>
    ELSE IF Len(tokens) = 1 THEN Pieces(tokens[1])
    ELSE Pieces(tokens[1]) \o <<Blank>> \o JoinBlank(Tail(tokens))

\* The words systemd makes of an unquoted command line: maximal runs
\* without a blank.  cur is the word being read.
RECURSIVE WordsFrom(_, _)
WordsFrom(line, cur) ==
    IF line = <<>> THEN (IF cur = <<>> THEN <<>> ELSE <<cur>>)
    ELSE IF Head(line) = Blank
    THEN (IF cur = <<>> THEN <<>> ELSE <<cur>>) \o WordsFrom(Tail(line), <<>>)
    ELSE WordsFrom(Tail(line), Append(cur, Head(line)))

SplitWords(line) == WordsFrom(line, <<>>)

\* The array installService() joins into dockerArgs.
ServiceArgs(dockerPlatform, cfg) ==
    <<"run", "--rm", "--name", "synchronizer-cli", "--pull", "always",
      "--platform", dockerPlatform, "cdrakep/synqchronizer:latest",
      "--depin", OrElse(cfg.depin, DefaultDepin),
      "--sync-name", cfg.syncHash,
      "--launcher", LauncherWithVersion("service"),
      "--key", cfg.key>>
    \o (IF Truthy(cfg.wallet) THEN <<"--wallet", cfg.wallet>> ELSE <<>>)
    \o (IF Truthy(cfg.account) THEN <<"--account", cfg.account>> ELSE <<>>)

\* installService(): needs a key and a wallet or account, else exits 1.
InstallService(cfg, platform, arch, whichOk, out, exists) ==
    /\ pc = "idle"
    /\ command' = "service"
    /\ config' = cfg
    /\ hostArch' = [platform |-> platform, arch |-> arch]
    /\ IF ~Truthy(cfg.key) \/ (~Truthy(cfg.wallet) /\ ~Truthy(cfg.account))
       THEN Exit(1) /\ UNCHANGED unitVars
       ELSE /\ binPath' = DetectDockerPath(whichOk, out, exists)
            /\ pathDirs' = PathDirs(Dirname(DetectDockerPath(whichOk, out, exists)))
            /\ dockerArgs' = JoinBlank(ServiceArgs(DockerPlatform(platform, arch), cfg))
            /\ Exit(0)
    /\ UNCHANGED <<osHostname, pulled, runtimeChecks, ending, cmds, imageQuery, shouldPull, args,
                   handlers, guidance, telemetryVars, dashboardVars, restVars>>

\* The service-web command: installWebServiceFile() throws without a key and
\* the command's catch exits 1.
InstallWebServiceFile(cfg, npxOk, npxOut, npmOk, npmOut, existing) ==
    /\ pc = "idle"
    /\ command' = "service-web"
    /\ config' = cfg
    /\ IF ~Truthy(cfg.key)
       THEN Exit(1) /\ UNCHANGED unitVars
       ELSE /\ binPath' = detectNpxPath(npxOk, npxOut, npmOk, npmOut, existing)
            /\ pathDirs' = PathDirs(Dirname(detectNpxPath(npxOk, npxOut, npmOk, npmOut, existing)))
            /\ dockerArgs' = dockerArgs
            /\ Exit(0)
    /\ UNCHANGED <<osHostname, pulled, runtimeChecks, ending, hostArch, cmds, imageQuery, shouldPull, args,
                   handlers, guidance, telemetryVars, dashboardVars, restVars>>

NextUnit ==
    \/ \E cfg \in UnitConfigs, p \in Platforms, a \in Archs, whichOk \in BOOLEAN,
          out \in DockerWhichOutputs, exists \in BOOLEAN :
            InstallService(cfg, p, a, whichOk, out, exists)
    \/ \E cfg \in UnitConfigs, npxOk \in BOOLEAN, npxOut \in NpxWhichOutputs,
          npmOk \in BOOLEAN, npmOut \in NpmWhichOutputs, existing \in SUBSET NpxFiles :
            InstallWebServiceFile(cfg, npxOk, npxOut, npmOk, npmOut, existing)

SpecUnit == Init /\ [][NextUnit]_vars

----------------------------------------------------------------------------
(* Properties of the service-unit generator *)

Count(seq, x) == Cardinality({i \in DOMAIN seq : seq[i] = x})

SixSystemDirs ==
    { <<"", "usr", "local", "sbin">>, <<"", "usr", "local", "bin">>, <<"", "usr", "sbin">>,
      <<"", "usr", "bin">>, <<"", "sbin">>, <<"", "bin">> }

Rendered == pc = "exited" /\ exitCode = 0 /\ command \in {"service", "service-web"}

\* The directory of the detected binary: all components but the last.
BinDir == IF Len(binPath) = 1 THEN <<".">> ELSE [i \in 1 .. Len(binPath) - 1 |-> binPath[i]]

\* C7: the PATH rendered into the worker unit and into the web unit holds each
\* of the six fixed system directories exactly once and the detected binary's
\* directory exactly once; a binary directory that is one of the six adds no
\* entry.
C7_PathEntriesOnce ==
    Rendered =>
        /\ \A d \in SixSystemDirs : Count(pathDirs, d) = 1
        /\ Count(pathDirs, BinDir) = 1
        /\ Len(pathDirs) = IF BinDir \in SixSystemDirs THEN 6 ELSE 7

C7_Witness ==
    /\ Rendered /\ command = "service-web"
    /\ binPath = <<"", "sbin", "npx">> /\ Len(pathDirs) = 6

\* The argument vector start() hands to spawn, each argument as a text.
ArgvText(argv) == [i \in DOMAIN argv |-> Pieces(argv[i])]

ServiceInstalled == command = "service" /\ pc = "exited" /\ exitCode = 0

\* C28, as stated: for every config both operations accept, the words of
\* the container command on the service unit's ExecStart line are the
\* argument sequence start() passes to the runtime on the same host.
C28_AsStated ==
    (ServiceInstalled /\ ConfigUsable(config, osHostname)) =>
        SplitWords(dockerArgs) =
            ArgvText(BuildArgs("start", DockerPlatform(hostArch.platform, hostArch.arch),
                               config))


----------------------------------------------------------------------------
(* Telemetry aggregator: the host it observes *)

\* `docker images` outcomes drawn for the status view's image checks.
StatusImageQueries == {q \in ImageQueryOutcomes : q.out \in {<<>>, <<"a">>}}

\* The host changes between requests: while no view is held, or after a first
\* status() whose successor is still to come.
Settled == view.op = "none" \/ (view.op = "status" /\ prevStatus.op = "none")

\* The runtime is installed, removed, started or stopped; containers need a
\* reachable daemon.
EnvDocker(s) ==
    /\ Settled
    /\ s # dockerState
    /\ dockerState' = s
    /\ running' = IF s = "up" THEN running ELSE {}
    /\ UNCHANGED <<unit, view, prevStatus, stoppedSince, supervisorVars, unitVars, dashboardVars, restVars>>

\* The persisted service changes state (installed, started, stopped, failed).
EnvUnit(u) ==
    /\ Settled
    /\ u # unit
    /\ unit' = u
    /\ UNCHANGED <<dockerState, running, view, prevStatus, stoppedSince,
                   supervisorVars, unitVars, dashboardVars, restVars>>

\* A worker container starts or stops.
EnvContainer(r) ==
    /\ Settled
    /\ dockerState = "up"
    /\ r # running
    /\ running' = r
    /\ stoppedSince' = (stoppedSince /\ r = {})
    /\ UNCHANGED <<dockerState, unit, view, prevStatus, supervisorVars, unitVars, dashboardVars, restVars>>

\* execSync('docker --version') succeeds when the binary is installed.
DockerVersionOk == dockerState # "absent"

\* `docker ps --filter name=<n>`: fails when the daemon is unreachable or the
\* call itself fails (fail), else prints the matching running names.
PsProbe(n, fail) ==
    [ok |-> dockerState = "up" /\ ~fail, found |-> dockerState = "up" /\ ~fail /\ n \in running]

----------------------------------------------------------------------------
(* status(): getSystemStatus *)

\* The if / else-if chain over the systemctl output.
ServiceStatusOf(out) ==
    IF "active (running)" \in out THEN "running"
    ELSE IF "inactive (dead)" \in out THEN "stopped"
    ELSE IF "failed" \in out THEN "failed"
    ELSE "unknown"

\* Mutant: the container probe's failure is not caught.
getSystemStatus_NoPsCatch(dockerOk, unitP, psP, qs) ==
    [serviceStatus |-> IF unitP.exists /\ unitP.ok THEN ServiceStatusOf(unitP.out) ELSE "unknown",
     dockerAvailable |-> dockerOk,
     autoStart |-> unitP.exists /\ unitP.ok /\ "enabled" \in unitP.out,
     uptime |-> unitP.exists /\ unitP.ok /\ "since" \in unitP.out,
     containerRunning |-> psP.ok /\ psP.found,
     imageUpdates |->
        IF dockerOk
        THEN [available |-> Cardinality({i \in DOMAIN qs : isNewDockerImageAvailable(qs[i])}),
              checked |-> TRUE,
              images |-> [i \in DOMAIN qs |-> isNewDockerImageAvailable(qs[i])]]
        ELSE [available |-> 0, checked |-> FALSE, images |-> <<>>],
     threw |-> ~psP.ok]

\* Mutant: the image checks run even when the runtime probe failed.
getSystemStatus_ImageChecksAlways(dockerOk, unitP, psP, qs) ==
    LET readable == unitP.exists /\ unitP.ok
        updates  == [i \in DOMAIN qs |-> isNewDockerImageAvailable(qs[i])]
    IN  [serviceStatus    |-> IF readable THEN ServiceStatusOf(unitP.out) ELSE "unknown",
         dockerAvailable  |-> dockerOk,
         autoStart        |-> readable /\ "enabled" \in unitP.out,
         uptime           |-> readable /\ "since" \in unitP.out,
         containerRunning |-> psP.ok /\ psP.found,
         imageUpdates     |->
            [available |-> Cardinality({i \in DOMAIN updates : updates[i]}),
             checked |-> TRUE, images |-> updates],
         threw            |-> FALSE]

\* getSystemStatus(config): dockerOk is the `docker --version` probe, unitP
\* the persisted-service probe, psP the manual-container probe, qs the
\* `docker images` outcomes for the two known images.  Every probe sits in
\* its own try/catch, so a failed probe leaves its field at the default.
\* uptime is TRUE when the "since <timestamp>;" text was extracted.
getSystemStatus(dockerOk, unitP, psP, qs) ==
    LET readable == unitP.exists /\ unitP.ok
        updates  == [i \in DOMAIN qs |-> isNewDockerImageAvailable(qs[i])]
    IN  [serviceStatus    |-> IF readable THEN ServiceStatusOf(unitP.out) ELSE "unknown",
         dockerAvailable  |-> dockerOk,
         autoStart        |-> readable /\ "enabled" \in unitP.out,
         uptime           |-> readable /\ "since" \in unitP.out,
         containerRunning |-> psP.ok /\ psP.found,
         imageUpdates     |->
            IF dockerOk
            THEN [available |-> Cardinality({i \in DOMAIN updates : updates[i]}),
                  checked |-> TRUE, images |-> updates]
            ELSE [available |-> 0, checked |-> FALSE, images |-> <<>>],
         threw            |-> FALSE]

----------------------------------------------------------------------------
(* Container introspection: getContainerStats *)

\* floor(x * num / den) on naturals, without overflowing 32 bits.
FloorFrac(x, num, den) == (x \div den) * num + ((x % den) * num) \div den

\* Math.random() is drawn from RandSteps evenly spaced values in [0, 1), kept
\* in thousandths.
RandSteps == 2
RandomValues == {(k * 1000) \div RandSteps : k \in 0 .. RandSteps - 1}

\* Math.floor(Math.random() * n)
RandInt(r, n) == (r * n) \div 1000

Null == [found |-> FALSE]

\* Container uptimes drawn, in hours (below and above the 24 h mark).
UptimeHours == {2, 30}

MB == 1048576

\* The tail of `docker logs`, by what the parser finds in it: ok is FALSE
\* when the command fails; marker says that one of the activity words
\* (proxy-connected, registered, session, traffic, stats) occurs; real says
\* that a stats line was parsed into realStats, whose counters follow (0 for
\* a counter the line does not carry: `||` treats both alike).
LogTail(ok, marker, real, points, wallet, traffic) ==
    [ok |-> ok, marker |-> marker, real |-> real, syncLifePoints |-> points,
     walletLifePoints |-> wallet, syncLifeTraffic |-> traffic, sessions |-> 0, users |-> 0]

LogTails ==
    { LogTail(FALSE, FALSE, FALSE, 0, 0, 0),       \* docker logs failed
      LogTail(TRUE, FALSE, FALSE, 0, 0, 0),        \* nothing of interest
      LogTail(TRUE, TRUE, FALSE, 0, 0, 0),         \* "proxy-connected"
      LogTail(TRUE, FALSE, TRUE, 120, 2500, 0),    \* {"syncLifePoints":120,"walletLifePoints":2500}
      LogTail(TRUE, TRUE, TRUE, 0, 0, 200 * MB) }  \* "traffic: 209715200"

\* `docker exec <name> ps aux`: fails, lists a node process, or does not.
ExecOutcomes == {"error", "node", "other"}

\* a || b on numbers
NumOr(a, b) == IF a # 0 THEN a ELSE b

\* Mutant: the nightly container is looked for first.
FirstRunning_NightlyFirst(ps) ==
    IF ps["synchronizer-nightly"].ok /\ ps["synchronizer-nightly"].found
    THEN "synchronizer-nightly"
    ELSE IF ps["synchronizer-cli"].ok /\ ps["synchronizer-cli"].found
    THEN "synchronizer-cli"
    ELSE "none"

\* The loop over containerNames: the first name, synchronizer-cli then
\* synchronizer-nightly, whose `docker ps` output includes it; a probe that
\* throws moves on to the next name.  "none" stands for containerName = null.
FirstRunning(ps) ==
    IF ps["synchronizer-cli"].ok /\ ps["synchronizer-cli"].found
    THEN "synchronizer-cli"
    ELSE IF ps["synchronizer-nightly"].ok /\ ps["synchronizer-nightly"].found
    THEN "synchronizer-nightly"
    ELSE "none"

\* getContainerStats(): ps maps each known name to its `docker ps` probe,
\* inspectOk is the `docker inspect` outcome, rnd the Math.random() draws.
\* Any failure outside the inner try blocks lands in the outer catch, which
\* returns null.
getContainerStats(ps, inspectOk, uptimeHours, logs, exec, rnd) ==
    LET name      == FirstRunning(ps)
        hasReal   == logs.ok /\ logs.real
        earning   == (logs.ok /\ logs.marker) \/ (~hasReal /\ exec = "node")
        basePoints ==
            IF hasReal THEN NumOr(logs.syncLifePoints, logs.walletLifePoints)
            ELSE IF earning THEN uptimeHours * 10 ELSE 0
        baseTraffic ==
            IF hasReal THEN logs.syncLifeTraffic
            ELSE IF earning THEN uptimeHours * MB * 50 ELSE 0
    IN  IF name = "none" THEN Null
        ELSE IF ~inspectOk THEN Null
        ELSE [found |-> TRUE,
              name |-> name,
              bytesIn |-> FloorFrac(baseTraffic, 6, 10),
              bytesOut |-> FloorFrac(baseTraffic, 4, 10),
              bytesInDelta |-> IF earning THEN RandInt(rnd[1], 1000) ELSE 0,
              bytesOutDelta |-> IF earning THEN RandInt(rnd[2], 500) ELSE 0,
              sessions |-> IF hasReal THEN logs.sessions
                           ELSE IF earning THEN RandInt(rnd[3], 5) + 1 ELSE 0,
              users |-> IF hasReal THEN logs.users
                        ELSE IF earning THEN RandInt(rnd[4], 3) + 1 ELSE 0,
              syncLifePoints |-> basePoints,
              syncLifePointsDelta |-> IF earning THEN RandInt(rnd[5], 5) ELSE 0,
              syncLifeTraffic |-> baseTraffic,
              walletLifePoints |->
                  IF hasReal THEN NumOr(logs.walletLifePoints, basePoints * 2)
                  ELSE basePoints * 2,
              availability |-> IF earning THEN 0 ELSE 2,
              reliability |-> IF earning THEN (IF uptimeHours > 24 THEN 0 ELSE 1) ELSE 2,
              efficiency |-> IF earning THEN (IF baseTraffic > MB * 100 THEN 0 ELSE 1) ELSE 2,
              proxyConnectionState |-> IF earning THEN "CONNECTED" ELSE "UNAVAILABLE",
              isEarningPoints |-> earning,
              uptimeHours |-> uptimeHours,
              hasRealStats |-> hasReal]

\* Every result getContainerStats() can return on the host as it is now.
ContainerStatsOutcomes ==
    { getContainerStats([n \in WorkerNames |-> PsProbe(n, n \in fails)],
                        inspectOk, h, logs, exec, rnd) :
        fails \in SUBSET WorkerNames, inspectOk \in BOOLEAN, h \in UptimeHours,
        logs \in LogTails, exec \in ExecOutcomes,
        rnd \in RandomValues \X RandomValues \X RandomValues \X RandomValues
                 \X RandomValues }

----------------------------------------------------------------------------
(* performance(): getPerformanceData *)

\* x || 2 on an ordinal indicator
IndicatorOr2(x) == IF x # 0 THEN x ELSE 2

\* factors[i] || 0, in tenths: factors = [1, 0.8, 0.5]
Factor(i) == IF i = 0 THEN 10 ELSE IF i = 1 THEN 8 ELSE IF i = 2 THEN 5 ELSE 0

\* Mutant: the quotient is rounded down, not to the nearest.
QosScore_RoundsDown(a, r, e) == ((Factor(a) * Factor(r) * Factor(e)) \div 50) * 5

\* Mutant: the product is floored, not rounded to a multiple of 5.
QosScore_NoRounding(a, r, e) == (Factor(a) * Factor(r) * Factor(e)) \div 10

\* qosScore = 100 * f[a] * f[r] * f[e]; Math.round(qosScore / 5) * 5, where
\* Math.round rounds halves up: round(P / 50) = floor((P + 25) / 50) for the
\* product P of the three factors in tenths.
QosScore(a, r, e) == ((Factor(a) * Factor(r) * Factor(e) + 25) \div 50) * 5

\* x === 0 ? 100 : x === 1 ? 80 : 20
DisplayPercent(x) == IF x = 0 THEN 100 ELSE IF x = 1 THEN 80 ELSE 20

\* Math.floor(base * randomFactor()), randomFactor = 0.8 + Math.random() * 0.4
Jitter(base, r) == FloorFrac(base, 800 + (r * 400) \div 1000, 1000)

Max(a, b) == IF a >= b THEN a ELSE b

\* getPerformanceData(config): serviceStatus and dockerAvailable come from
\* getSystemStatus, cs from getContainerStats; rnd are the Math.random()
\* draws of the fallback (five for the counters, three for the QoS).  path
\* names the branch taken; the returned object has no source field.
getPerformanceData(serviceStatus, dockerAvailable, cs, rnd) ==
    IF serviceStatus # "running" THEN
        LET reliability  == IF dockerAvailable THEN 30 ELSE Max(0, 30 - 40)
            availability == IF dockerAvailable THEN 25 ELSE Max(0, 25 - 50)
            efficiency   == IF dockerAvailable THEN 20 ELSE Max(0, 20 - 60)
        IN  [path |-> "stopped",
             performance |-> [totalTraffic |-> 0, sessions |-> 0, inTraffic |-> 0,
                              outTraffic |-> 0, users |-> 0],
             qos |-> [score |-> (reliability + availability + efficiency) \div 3,
                      reliability |-> reliability, availability |-> availability,
                      efficiency |-> efficiency],
             source |-> Undefined, threw |-> FALSE]
    ELSE IF cs.found THEN
        LET availability == IndicatorOr2(cs.availability)
            reliability  == IndicatorOr2(cs.reliability)
            efficiency   == IndicatorOr2(cs.efficiency)
        IN  [path |-> "measured",
             performance |-> [totalTraffic |-> cs.bytesIn + cs.bytesOut,
                              sessions |-> cs.sessions, inTraffic |-> cs.bytesInDelta,
                              outTraffic |-> cs.bytesOutDelta, users |-> cs.users],
             qos |-> [score |-> QosScore(availability, reliability, efficiency),
                      reliability |-> DisplayPercent(reliability),
                      availability |-> DisplayPercent(availability),
                      efficiency |-> DisplayPercent(efficiency)],
             source |-> Undefined, threw |-> FALSE]
    ELSE
        LET reliability  == 85 + RandInt(rnd[6], 10)
            availability == 90 + RandInt(rnd[7], 8)
            efficiency   == 75 + RandInt(rnd[8], 20)
        IN  [path |-> "synthetic",
             performance |-> [totalTraffic |-> Jitter(MB * 150, rnd[1]),
                              sessions |-> Jitter(12, rnd[2]),
                              inTraffic |-> Jitter(512, rnd[3]),
                              outTraffic |-> Jitter(256, rnd[4]),
                              users |-> Jitter(3, rnd[5])],
             qos |-> [score |-> (reliability + availability + efficiency) \div 3,
                      reliability |-> reliability, availability |-> availability,
                      efficiency |-> efficiency],
             source |-> Undefined, threw |-> FALSE]

----------------------------------------------------------------------------
(* points(): fetchWalletLifetimePoints and getPointsData *)

\* serviceCredits values the registry reports (0 also stands for a body
\* without the field: `|| 0` treats both alike).
Credits == {0, 37, 2500}

\* One registry request: fetch rejects (throw), the response is not OK
\* (nonok), its body is not JSON (badjson), or it carries the credits (ok).
\* none marks a request that was not made.
EndpointOutcomes ==
    {[kind |-> k, credits |-> 0] : k \in {"throw", "nonok", "badjson"}}
    \cup {[kind |-> "ok", credits |-> c] : c \in Credits}

NoRequest == [kind |-> "none", credits |-> 0]

\* Mutant: a failed lookup is reported as an empty success.
fetchWalletLifetimePoints_FailureIsEmptySuccess(key, wallet, primary, secondary) ==
    [success |-> TRUE, lifetimePoints |-> 0, dailyPoints |-> 0, weeklyPoints |-> 0,
     monthlyPoints |-> 0, source |-> "registry_api", error |-> Undefined]

\* Mutant: a success of the second endpoint is labelled like the first.
fetchWalletLifetimePoints_OneLabel(key, wallet, primary, secondary) ==
    LET Data(c) ==
            [success |-> TRUE, lifetimePoints |-> c,
             dailyPoints |-> FloorFrac(c, 5, 100),
             weeklyPoints |-> FloorFrac(c, 20, 100),
             monthlyPoints |-> FloorFrac(c, 50, 100),
             source |-> "registry_api", error |-> Undefined]
        Failure(e) ==
            [success |-> FALSE, lifetimePoints |-> 0, dailyPoints |-> 0, weeklyPoints |-> 0,
             monthlyPoints |-> 0, source |-> Undefined, error |-> e]
    IN  IF ~Truthy(key) \/ ~Truthy(wallet) THEN Failure("Missing key or wallet")
        ELSE IF primary.kind = "ok" THEN Data(primary.credits)
        ELSE IF primary.kind = "nonok" /\ secondary.kind = "ok" THEN Data(secondary.credits)
        ELSE Failure("Error fetching points")

\* fetchWalletLifetimePoints(key, wallet): primary is GET /wallet/<w>/read,
\* secondary GET /depin/wallet/<w>/read, asked only when the first response
\* is not OK.  Everything thrown inside is caught and reported as a failure.
fetchWalletLifetimePoints(key, wallet, primary, secondary) ==
    LET Data(c, src) ==
            [success |-> TRUE, lifetimePoints |-> c,
             dailyPoints |-> FloorFrac(c, 5, 100),
             weeklyPoints |-> FloorFrac(c, 20, 100),
             monthlyPoints |-> FloorFrac(c, 50, 100),
             source |-> src, error |-> Undefined]
        Failure(e) ==
            [success |-> FALSE, lifetimePoints |-> 0, dailyPoints |-> 0, weeklyPoints |-> 0,
             monthlyPoints |-> 0, source |-> Undefined, error |-> e]
    IN  IF ~Truthy(key) \/ ~Truthy(wallet) THEN Failure("Missing key or wallet")
        ELSE IF primary.kind = "throw" THEN Failure("Error fetching points")
        ELSE IF primary.kind = "nonok" THEN
            IF secondary.kind = "throw" THEN Failure("Error fetching points")
            ELSE IF secondary.kind = "nonok" THEN Failure("API error")
            ELSE IF secondary.kind = "badjson" THEN Failure("Error fetching points")
            ELSE Data(secondary.credits, "depin_registry_api")
        ELSE IF primary.kind = "badjson" THEN Failure("Error fetching points")
        ELSE Data(primary.credits, "registry_api")

\* The points object.  rank is 'N/A' (na) or a number (n).
PointsOf(total, daily, weekly, monthly, streak, rank, multiplier) ==
    [total |-> total, daily |-> daily, weekly |-> weekly, monthly |-> monthly,
     streak |-> streak, rank |-> rank, multiplier |-> multiplier]

RankNA == [na |-> TRUE, n |-> 0]

ZeroPoints == PointsOf(0, 0, 0, 0, 0, RankNA, "1.0")

\* Mutant: the registry's estimates are dropped from the result.
getPointsData_NoEstimates(cfg, reg, cs, rnd) ==
    IF ~Truthy(cfg.key) \/ ~Truthy(cfg.wallet) THEN
        [points |-> ZeroPoints, source |-> Undefined,
         error |-> "Missing Synq key or wallet address", fallback |-> FALSE,
         threw |-> FALSE]
    ELSE IF reg.success THEN
        [points |-> PointsOf(reg.lifetimePoints, 0, 0, 0, 0, RankNA, "1.0"),
         source |-> OrElse(reg.source, "registry_api"),
         error |-> Undefined, fallback |-> FALSE, threw |-> FALSE]
    ELSE
        [points |-> ZeroPoints, source |-> Undefined,
         error |-> "Synchronizer container not running - start it first",
         fallback |-> TRUE, threw |-> FALSE]

\* getPointsData(config): reg is the registry lookup's result, cs the
\* container statistics (read only when the lookup did not succeed), rnd the
\* Math.random() draws for streak and rank.  A field the returned object
\* does not carry is Undefined (source, error) or FALSE (fallback).
getPointsData(cfg, reg, cs, rnd) ==
    IF ~Truthy(cfg.key) \/ ~Truthy(cfg.wallet) THEN
        [points |-> ZeroPoints, source |-> Undefined,
         error |-> "Missing Synq key or wallet address", fallback |-> FALSE,
         threw |-> FALSE]
    ELSE IF reg.success THEN
        [points |-> PointsOf(reg.lifetimePoints, reg.dailyPoints, reg.weeklyPoints,
                             reg.monthlyPoints, 0, RankNA, "1.0"),
         source |-> OrElse(reg.source, "registry_api"),
         error |-> Undefined, fallback |-> FALSE, threw |-> FALSE]
    ELSE IF ~cs.found THEN
        [points |-> ZeroPoints, source |-> Undefined,
         error |-> "Synchronizer container not running - start it first",
         fallback |-> TRUE, threw |-> FALSE]
    ELSE
        LET walletLifePoints == cs.walletLifePoints
        IN  [points |->
                PointsOf(walletLifePoints,
                         IF cs.isEarningPoints THEN cs.uptimeHours ELSE 0,
                         FloorFrac(walletLifePoints, 1, 10),
                         FloorFrac(walletLifePoints, 3, 10),
                         IF walletLifePoints > 100 THEN RandInt(rnd[1], 7) + 1 ELSE 0,
                         IF walletLifePoints > 1000
                         THEN [na |-> FALSE, n |-> RandInt(rnd[2], 10000) + 1]
                         ELSE RankNA,
                         IF cs.isEarningPoints THEN "1.0" ELSE "0.0"),
             source |-> "container_stats",
             error |-> Undefined, fallback |-> FALSE, threw |-> FALSE]

\* Configurations the dashboard serves points for: every key and wallet.
PointsConfigs ==
    {cfg \in Configs : cfg.hostname = "hostA" /\ cfg.account = Undefined /\ cfg.depin = Undefined}

\* What the host looked like when a view was computed.
Observed == [docker |-> dockerState, unit |-> unit, running |-> running]

\* What is kept of the status() result before the current one: the host it
\* saw and the fields read from the probes, without the image report.
Earlier(v) ==
    IF v.op # "status" THEN NoView
    ELSE [op |-> "status",
          in |-> [docker |-> v.in.docker, unit |-> v.in.unit, running |-> v.in.running],
          out |-> [serviceStatus |-> v.out.serviceStatus,
                   dockerAvailable |-> v.out.dockerAvailable,
                   autoStart |-> v.out.autoStart, uptime |-> v.out.uptime,
                   containerRunning |-> v.out.containerRunning, threw |-> v.out.threw]]

\* One status() call (GET /api/status).
Status(psFail, qs) ==
    /\ Settled
    /\ view' = [op |-> "status",
                in |-> Observed @@ [ps |-> PsProbe("synchronizer-cli", psFail), qs |-> qs],
                out |-> getSystemStatus(DockerVersionOk, unit,
                                        PsProbe("synchronizer-cli", psFail), qs)]
    /\ prevStatus' = Earlier(view)
    /\ stoppedSince' = (running = {} /\ (view.op = "status" => stoppedSince))
    /\ UNCHANGED <<dockerState, unit, running, supervisorVars, unitVars, dashboardVars, restVars>>

\* Every result getSystemStatus() can return on the host as it is now.
StatusOutcomes ==
    { getSystemStatus(DockerVersionOk, unit, PsProbe("synchronizer-cli", psFail), qs) :
        psFail \in BOOLEAN, qs \in StatusImageQueries \X StatusImageQueries }

NoRandom == <<0, 0, 0, 0, 0, 0, 0, 0>>

\* One performance() call (GET /api/performance).  Math.random() is drawn
\* only on the branch that calls it.
Performance ==
    /\ view.op = "none"
    /\ \E st \in StatusOutcomes, cs \in ContainerStatsOutcomes :
         \E rnd \in IF st.serviceStatus = "running" /\ ~cs.found
                     THEN RandomValues \X RandomValues \X RandomValues \X RandomValues
                          \X RandomValues \X RandomValues \X RandomValues \X RandomValues
                     ELSE {NoRandom} :
            view' = [op |-> "performance",
                     in |-> [docker |-> dockerState, unit |-> unit, running |-> running,
                             stats |-> IF st.serviceStatus = "running" THEN cs ELSE Null],
                     out |-> getPerformanceData(st.serviceStatus, st.dockerAvailable, cs, rnd)]
    /\ UNCHANGED <<dockerState, unit, running, prevStatus, stoppedSince,
                   supervisorVars, unitVars, dashboardVars, restVars>>

\* Mutant: the container is read before the registry is asked.
PointsCalls_ContainerFirst(cfg, primary, reg) ==
    IF ~Truthy(cfg.key) \/ ~Truthy(cfg.wallet) THEN <<>>
    ELSE <<"container", "primary">>
         \o (IF primary.kind = "nonok" THEN <<"secondary">> ELSE <<>>)

\* The queries one getPointsData() call makes, in the order it makes them:
\* the first registry endpoint, the second one inside the !response.ok
\* branch, and getContainerStats() when the lookup did not succeed.
PointsCalls(cfg, primary, reg) ==
    IF ~Truthy(cfg.key) \/ ~Truthy(cfg.wallet) THEN <<>>
    ELSE <<"primary">>
         \o (IF primary.kind = "nonok" THEN <<"secondary">> ELSE <<>>)
         \o (IF ~reg.success THEN <<"container">> ELSE <<>>)

\* One points() call (GET /api/points).  The second endpoint, the container
\* and Math.random() are drawn only on the branch that reaches them.
Points(cfg) ==
    LET asked == Truthy(cfg.key) /\ Truthy(cfg.wallet)
    IN  /\ view.op = "none"
        /\ \E primary \in IF asked THEN EndpointOutcomes ELSE {NoRequest} :
             \E secondary \in IF primary.kind = "nonok" THEN EndpointOutcomes ELSE {NoRequest} :
                LET reg == fetchWalletLifetimePoints(cfg.key, cfg.wallet, primary, secondary)
                IN  \E cs \in IF asked /\ ~reg.success THEN ContainerStatsOutcomes ELSE {Null} :
                      \E rnd \in IF cs.found THEN RandomValues \X RandomValues ELSE {<<0, 0>>} :
                        view' = [op |-> "points",
                                 in |-> [docker |-> dockerState, unit |-> unit,
                                         running |-> running, cfg |-> cfg,
                                         primary |-> primary, secondary |-> secondary,
                                         calls |-> PointsCalls(cfg, primary, reg),
                                         found |-> cs.found],
                                 out |-> getPointsData(cfg, reg, cs, rnd)]
        /\ UNCHANGED <<dockerState, unit, running, prevStatus, stoppedSince,
                       supervisorVars, unitVars, dashboardVars, restVars>>

\* One getContainerStats() call, as performance() and points() make it.
\* Kept of the result: whether it is a counters record, and for which name.
ContainerStats(fails, inspectOk, h, logs, exec, rnd) ==
    /\ view.op = "none"
    /\ LET cs == getContainerStats([n \in WorkerNames |-> PsProbe(n, n \in fails)],
                                   inspectOk, h, logs, exec, rnd)
       IN  view' = [op |-> "stats",
                    in |-> [docker |-> dockerState, unit |-> unit, running |-> running,
                            fails |-> fails, inspectOk |-> inspectOk,
                            logsOk |-> logs.ok, exec |-> exec],
                    out |-> [found |-> cs.found,
                             name |-> IF cs.found THEN cs.name ELSE "none"]]
    /\ UNCHANGED <<dockerState, unit, running, prevStatus, stoppedSince,
                   supervisorVars, unitVars, dashboardVars, restVars>>

\* The response has been sent; the next request starts afresh.
Respond ==
    /\ view.op # "none"
    /\ view' = NoView
    /\ prevStatus' = NoView
    /\ stoppedSince' = FALSE
    /\ UNCHANGED <<dockerState, unit, running, supervisorVars, unitVars, dashboardVars, restVars>>

NextTelemetry ==
    \/ \E s \in {"absent", "down", "up"} : EnvDocker(s)
    \/ \E u \in UnitProbes : EnvUnit(u)
    \/ \E r \in SUBSET WorkerNames : EnvContainer(r)
    \/ \E psFail \in BOOLEAN, qs \in StatusImageQueries \X StatusImageQueries :
            Status(psFail, qs)
    \/ Performance
    \/ \E cfg \in PointsConfigs : Points(cfg)
    \/ \E fails \in SUBSET WorkerNames, inspectOk \in BOOLEAN, h \in UptimeHours,
          logs \in LogTails, exec \in ExecOutcomes, r \in RandomValues :
            ContainerStats(fails, inspectOk, h, logs, exec, <<r, r, r, r, r>>)
    \/ Respond

SpecTelemetry == Init /\ [][NextTelemetry]_vars

----------------------------------------------------------------------------
(* Properties of the telemetry aggregator *)

IsPerformance == view.op = "performance"
Measured      == IsPerformance /\ view.out.path = "measured"
MultipleOf5(n) == n % 5 = 0

\* C3 as stated: every performance() result, on every path, has a qos.score
\* that is a multiple of 5 in 0..100.
C3_AsStated ==
    IsPerformance => view.out.qos.score \in 0 .. 100 /\ MultipleOf5(view.out.qos.score)

\* C3: every performance() result has a qos.score in 0..100.  It is a
\* multiple of 5 when the service is not running (25, or 0 without the
\* runtime) and when container counters were read; the synthetic fallback
\* returns floor((reliability + availability + efficiency) / 3), a whole
\* number in 83..95 that need not be a multiple of 5.
C3_ScoreRange ==
    IsPerformance =>
        LET q == view.out.qos
        IN  /\ q.score \in 0 .. 100
            /\ view.out.path = "stopped" =>
                    q.score = (IF view.in.docker = "absent" THEN 0 ELSE 25)
            /\ view.out.path = "measured" => MultipleOf5(q.score)
            /\ view.out.path = "synthetic" =>
                    /\ q.score = (q.reliability + q.availability + q.efficiency) \div 3
                    /\ q.score \in 83 .. 95

C3_Witness ==
    IsPerformance /\ view.out.path = "synthetic" /\ ~MultipleOf5(view.out.qos.score)

\* C4 as stated: when performance() reads container counters, for every
\* indicator triple (a, r, e) in {0,1,2}^3 reported by container
\* introspection the score is round((100 * f(a) * f(r) * f(e)) / 5) * 5 and
\* each display percentage is good -> 100, ok -> 80, poor -> 20; so
\* (good, good, good) yields 100.
C4_AsStated ==
    Measured =>
        LET cs == view.in.stats
            q  == view.out.qos
        IN  /\ q.score = QosScore(cs.availability, cs.reliability, cs.efficiency)
            /\ q.availability = DisplayPercent(cs.availability)
            /\ q.reliability = DisplayPercent(cs.reliability)
            /\ q.efficiency = DisplayPercent(cs.efficiency)
            /\ (cs.availability = 0 /\ cs.reliability = 0 /\ cs.efficiency = 0
                    => q.score = 100)

AllPoor ==
    /\ Measured
    /\ view.in.stats.availability = 2
    /\ view.in.stats.reliability = 2
    /\ view.in.stats.efficiency = 2

\* C5 as stated: for indicators (poor, poor, poor) the score is 5.
C5_AsStated == AllPoor => view.out.qos.score = 5

\* C5: for indicators (poor, poor, poor) the score is
\* round(100 * 0.5^3 / 5) * 5 = round(2.5) * 5 = 15.
C5_AllPoorScore == AllPoor => view.out.qos.score = 15

C5_Witness == AllPoor /\ view.out.qos.score = 15 /\ view.out.qos.availability = 20

IsPoints == view.op = "points"

\* No registry endpoint answered with a usable body.
RegistryUnreachable ==
    /\ view.in.primary.kind \in {"throw", "nonok", "badjson"}
    /\ view.in.primary.kind = "nonok" => view.in.secondary.kind \in {"throw", "nonok", "badjson"}

C6_Case ==
    /\ IsPoints
    /\ Truthy(view.in.cfg.key) /\ Truthy(view.in.cfg.wallet)
    /\ RegistryUnreachable
    /\ view.in.running = {}

\* C6: with a key and a wallet, an unreachable registry and no worker
\* container running, points() returns total 0, fallback true and a
\* non-empty error, and does not throw.
C6_UnreachableFallback ==
    C6_Case =>
        /\ view.out.points.total = 0
        /\ view.out.fallback
        /\ Truthy(view.out.error)
        /\ ~view.out.threw

C6_Witness ==
    /\ C6_Case
    /\ view.in.primary.kind = "nonok" /\ view.in.secondary.kind = "nonok"
    /\ view.out.fallback /\ view.out.source = Undefined

\* Two status() calls in sequence, with no worker container running at
\* either call or between them.
StatusPairWhileStopped ==
    prevStatus.op = "status" /\ view.op = "status" /\ stoppedSince

ShowsActive(u) == u.exists /\ u.ok /\ "active (running)" \in u.out

\* C10 as stated: two sequential status() calls while the worker container
\* is stopped both report a serviceState other than running, carry the same
\* dockerAvailable, and neither throws.
C10_AsStated ==
    StatusPairWhileStopped =>
        /\ prevStatus.out.serviceStatus # "running"
        /\ view.out.serviceStatus # "running"
        /\ prevStatus.out.dockerAvailable = view.out.dockerAvailable
        /\ ~prevStatus.out.threw /\ ~view.out.threw

\* C10: two sequential status() calls while the worker container is stopped
\* both report containerRunning false and neither throws.  serviceStatus is
\* read from the persisted service, so each call reports running exactly
\* when systemctl shows the unit active (running), container or not; and
\* dockerAvailable is each call's own `docker --version` probe, so the two
\* values agree when the runtime was not installed or removed in between.
C10_StoppedContainerStatus ==
    StatusPairWhileStopped =>
        /\ ~prevStatus.out.containerRunning /\ ~view.out.containerRunning
        /\ ~prevStatus.out.threw /\ ~view.out.threw
        /\ (prevStatus.out.serviceStatus = "running") = ShowsActive(prevStatus.in.unit)
        /\ (view.out.serviceStatus = "running") = ShowsActive(view.in.unit)
        /\ prevStatus.out.dockerAvailable = (prevStatus.in.docker # "absent")
        /\ view.out.dockerAvailable = (view.in.docker # "absent")

C10_Witness ==
    /\ StatusPairWhileStopped
    /\ prevStatus.out.serviceStatus = "running"
    /\ prevStatus.out.dockerAvailable # view.out.dockerAvailable

IsStatus == view.op = "status"

\* The persisted-service probe failed: systemctl exited non-zero or could
\* not be run.
UnitProbeFailed(u) == u.exists /\ ~u.ok

\* C11 as stated: status() returns for every combination of probe outcomes,
\* and a failed probe or image check leaves its own field at the default
\* (dockerAvailable false, serviceStatus unknown, containerRunning false,
\* updateAvailable false), with no exception reaching the caller.
C11_AsStated ==
    IsStatus =>
        /\ ~view.out.threw
        /\ view.in.docker = "absent" => ~view.out.dockerAvailable
        /\ UnitProbeFailed(view.in.unit) => view.out.serviceStatus = "unknown"
        /\ ~view.in.ps.ok => ~view.out.containerRunning
        /\ \A i \in DOMAIN view.in.qs :
              ~view.in.qs[i].ok =>
                  (i \notin DOMAIN view.out.imageUpdates.images
                     \/ ~view.out.imageUpdates.images[i])

\* C11: status() returns for every combination of probe outcomes and never
\* throws.  A failed runtime probe gives dockerAvailable false and skips the
\* image checks (no images listed); a failed persisted-service probe gives
\* serviceStatus unknown, autoStart false and no uptime; a failed
\* manual-container probe gives containerRunning false.  A failed image
\* check, made when the runtime is available, reports updateAvailable true
\* for that image and is counted among the available updates.
C11_ProbeFailuresContained ==
    IsStatus =>
        LET u == view.out.imageUpdates
        IN  /\ ~view.out.threw
            /\ view.in.docker = "absent" =>
                    ~view.out.dockerAvailable /\ u.images = <<>> /\ u.available = 0
            /\ UnitProbeFailed(view.in.unit) =>
                    /\ view.out.serviceStatus = "unknown"
                    /\ ~view.out.autoStart /\ ~view.out.uptime
            /\ ~view.in.ps.ok => ~view.out.containerRunning
            /\ view.out.dockerAvailable =>
                    /\ DOMAIN u.images = DOMAIN view.in.qs
                    /\ \A i \in DOMAIN view.in.qs : ~view.in.qs[i].ok => u.images[i]
                    /\ u.available = Cardinality({i \in DOMAIN u.images : u.images[i]})

C11_Witness ==
    /\ IsStatus
    /\ view.in.docker = "down" /\ UnitProbeFailed(view.in.unit) /\ ~view.in.ps.ok
    /\ ~view.in.qs[1].ok /\ view.in.qs[2].ok
    /\ view.out.imageUpdates.images[1] /\ view.out.imageUpdates.available >= 1

ConfigComplete == Truthy(view.in.cfg.key) /\ Truthy(view.in.cfg.wallet)

\* C12 as stated: every points() result, error and missing-configuration
\* paths included, carries a source that is one of registry_api,
\* container_stats or synthetic.
C12_AsStated ==
    IsPoints => view.out.source \in {"registry_api", "container_stats", "synthetic"}

\* C12: a points() result carries a source exactly when it carries data:
\* registry_api when the wallet endpoint answered, depin_registry_api when
\* only the DePIN endpoint answered, container_stats when the registry
\* lookup failed and a worker container was read.  The missing-configuration
\* result and the no-container result carry no source; they carry an error
\* instead.  No result is labelled synthetic.
C12_SourceWhenData ==
    IsPoints =>
        LET o == view.out
        IN  /\ o.source \in {Undefined, "registry_api", "depin_registry_api", "container_stats"}
            /\ (o.source = Undefined) = Truthy(o.error)
            /\ ~ConfigComplete => o.source = Undefined
            /\ ConfigComplete /\ view.in.primary.kind = "ok" => o.source = "registry_api"
            /\ ConfigComplete /\ view.in.primary.kind = "nonok"
                    /\ view.in.secondary.kind = "ok" => o.source = "depin_registry_api"
            /\ ConfigComplete /\ RegistryUnreachable =>
                    /\ o.source \in {Undefined, "container_stats"}
                    /\ view.in.running = {} => o.source = Undefined

C12_Witness ==
    /\ IsPoints /\ ConfigComplete
    /\ view.in.primary.kind = "nonok" /\ view.in.secondary.kind = "ok"
    /\ view.out.source = "depin_registry_api" /\ view.out.points.total = 2500

\* C13 as stated: when the config lacks the key and wallet, points() returns
\* all-zero points with both an error and a fallback flag set to true, as it
\* does when no container is found.
C13_AsStated ==
    IsPoints /\ ~Truthy(view.in.cfg.key) /\ ~Truthy(view.in.cfg.wallet) =>
        /\ view.out.points = ZeroPoints
        /\ Truthy(view.out.error)
        /\ view.out.fallback

\* C14 as stated: whenever performance() returns the synthetic estimate, the
\* result is labelled as estimated through a source field.
C14_AsStated ==
    IsPerformance /\ view.out.path = "synthetic" => Truthy(view.out.source)

Calls == view.in.calls

CallIndex(c) == CHOOSE i \in DOMAIN Calls : Calls[i] = c

Called(c) == \E i \in DOMAIN Calls : Calls[i] = c

\* The registry lookup of the points() call in `view` succeeded, and with
\* which endpoint's answer.
RegistryAnswer ==
    IF view.in.primary.kind = "ok" THEN view.in.primary
    ELSE IF view.in.primary.kind = "nonok" /\ view.in.secondary.kind = "ok"
    THEN view.in.secondary
    ELSE NoRequest

RegistrySucceeded == IsPoints /\ RegistryAnswer.kind = "ok"

EstimatesOf(total) ==
    /\ view.out.points.total = total
    /\ view.out.points.daily * 100 <= 5 * total
    /\ 5 * total < (view.out.points.daily + 1) * 100
    /\ view.out.points.weekly * 100 <= 20 * total
    /\ 20 * total < (view.out.points.weekly + 1) * 100
    /\ view.out.points.monthly * 100 <= 50 * total
    /\ 50 * total < (view.out.points.monthly + 1) * 100

\* C23, as stated: when the registry query succeeds, points() returns the
\* reported lifetime credits as total, the floors of 0.05, 0.2 and 0.5 of
\* it as daily, weekly and monthly, source registry_api, and the container
\* is not consulted.
C23_AsStated ==
    RegistrySucceeded =>
        /\ EstimatesOf(RegistryAnswer.credits)
        /\ view.out.source = "registry_api"
        /\ ~Called("container")

\* C23, amended: when the registry query succeeds, total is the reported
\* lifetime credits, daily, weekly and monthly are the floors of 0.05, 0.2
\* and 0.5 of it, the container is not consulted, and source names the
\* endpoint that answered: registry_api for the first, depin_registry_api
\* for the second.
C23_RegistryResult ==
    RegistrySucceeded =>
        /\ EstimatesOf(RegistryAnswer.credits)
        /\ view.out.source = (IF view.in.primary.kind = "ok" THEN "registry_api"
                              ELSE "depin_registry_api")
        /\ ~Called("container") /\ ~view.in.found
        /\ view.out.error = Undefined /\ ~view.out.fallback

C23_Witness ==
    /\ RegistrySucceeded /\ view.in.primary.kind = "nonok"
    /\ view.out.points.total = 37 /\ view.out.points.daily = 1
    /\ view.out.points.weekly = 7 /\ view.out.points.monthly = 18
    /\ view.in.running # {}

\* C24, as stated: in points() the second registry endpoint is queried only
\* after the first answered non-OK, the container only after the registry
\* lookup failed, and the zero/error result is produced only after the
\* container query found no container.
C24_AsStated ==
    IsPoints =>
        /\ Called("secondary") =>
                Called("primary") /\ CallIndex("primary") < CallIndex("secondary")
                /\ view.in.primary.kind = "nonok"
        /\ Called("container") =>
                /\ RegistryAnswer.kind # "ok"
                /\ CallIndex("container") = Len(Calls)
        /\ view.out.error # Undefined =>
                Called("container") /\ ~view.in.found

\* C24, amended: for a config with key and wallet the tiers are tried in
\* that order and the zero/error result marked as fallback is produced only
\* after the container query found no container; for a config without key
\* or wallet no tier is queried and a zero/error result is returned at once.
C24_TiersInOrder ==
    IsPoints =>
        /\ Called("secondary") =>
                Called("primary") /\ CallIndex("primary") < CallIndex("secondary")
                /\ view.in.primary.kind = "nonok"
        /\ Called("container") =>
                /\ RegistryAnswer.kind # "ok"
                /\ Called("primary")
                /\ CallIndex("container") = Len(Calls)
        /\ view.out.error # Undefined =>
                IF Truthy(view.in.cfg.key) /\ Truthy(view.in.cfg.wallet)
                THEN Called("container") /\ ~view.in.found /\ view.out.fallback
                ELSE Calls = <<>> /\ ~view.out.fallback
        /\ view.out.error = Undefined => Calls # <<>>
        /\ (Called("container") /\ view.in.found) => view.out.source = "container_stats"

C24_Witness ==
    /\ IsPoints /\ Calls = <<"primary", "secondary", "container">>
    /\ view.in.secondary.kind = "nonok" /\ ~view.in.found
    /\ view.out.fallback /\ view.out.error # Undefined


IsStats == view.op = "stats"

\* The names the runtime reported as running to this getContainerStats()
\* call: the runtime is up, the container runs, and the probe did not fail.
ReportedRunning ==
    {n \in WorkerNames :
        view.in.docker = "up" /\ n \in view.in.running /\ n \notin view.in.fails}

\* C25: getContainerStats() returns, for every combination of failing ps,
\* inspect, logs and exec calls, either the no-container result or a
\* counters record; a record is returned only when the start-time query
\* worked and only for the first name, synchronizer-cli before
\* synchronizer-nightly, that the runtime reported as running.
C25_RecordOrNull ==
    IsStats =>
        /\ view.out.found \in BOOLEAN
        /\ view.out.found <=> (ReportedRunning # {} /\ view.in.inspectOk)
        /\ view.out.found =>
               view.out.name = (IF "synchronizer-cli" \in ReportedRunning
                                THEN "synchronizer-cli" ELSE "synchronizer-nightly")
        /\ ~view.out.found => view.out.name = "none"

C25_Witness ==
    /\ IsStats /\ view.in.running = WorkerNames
    /\ view.in.fails = {"synchronizer-cli"}
    /\ ~view.in.logsOk /\ view.in.exec = "error"
    /\ view.out.found /\ view.out.name = "synchronizer-nightly"


----------------------------------------------------------------------------
(* Web dashboard: authenticateRequest and the gated routes *)

\* The password prompts accept 4 characters or more.
MinPasswordLen == 4

\* Password characters: an ordinary one and the colon.
PwChars == {"p", ":"}

Passwords == {s \in SeqsUpTo(PwChars, MinPasswordLen) : Len(s) >= MinPasswordLen}

Usernames == {<<>>, <<"u">>}

\* What Buffer.from(auth.slice(6), 'base64').toString() yields: user-ids with
\* no colon, and user-id ":" password pairs.
Credentials ==
    Usernames \cup
    {u \o <<":">> \o pw : u \in Usernames, pw \in Passwords \cup {<<>>, <<"p">>}}

\* The Authorization header: absent, of another scheme, or "Basic " followed
\* by the base64 text of creds.
AuthHeaders ==
    {[present |-> FALSE, scheme |-> "none", creds |-> <<>>],
     [present |-> TRUE, scheme |-> "Bearer", creds |-> <<>>]}
    \cup {[present |-> TRUE, scheme |-> "Basic", creds |-> c] : c \in Credentials}

\* Routes registered on guiApp after guiApp.use(authenticateRequest).
GatedRoutes ==
    {"/", "/api/status", "/api/logs", "/api/performance", "/api/points",
     "/api/install-web-service"}

HasColon(str) == \E i \in 1 .. Len(str) : str[i] = ":"

FirstColon(str) ==
    CHOOSE i \in 1 .. Len(str) : str[i] = ":" /\ \A j \in 1 .. i - 1 : str[j] # ":"

\* String.prototype.split(':')
RECURSIVE Split(_)
Split(str) ==
    IF ~HasColon(str) THEN <<str>>
    ELSE <<SubSeq(str, 1, FirstColon(str) - 1)>>
         \o Split(SubSeq(str, FirstColon(str) + 1, Len(str)))

\* Mutant: the middleware lets every request through.
authenticateRequest_NoGate(pw, auth) ==
    [next |-> TRUE, authenticated |-> FALSE, status |-> 0, challenge |-> FALSE,
     body |-> "none"]

\* authenticateRequest(req, res, next): pw is loadConfig().dashboardPassword,
\* auth the Authorization header.  const [username, password] =
\* credentials.split(':') takes the second field; it is undefined when
\* there is none.
authenticateRequest(pw, auth) ==
    LET parts    == Split(auth.creds)
        Pass     == [next |-> TRUE, authenticated |-> FALSE, status |-> 0,
                     challenge |-> FALSE, body |-> "none"]
        Deny(b)  == [next |-> FALSE, authenticated |-> FALSE, status |-> 401,
                     challenge |-> TRUE, body |-> b]
    IN  IF ~pw.set \/ pw.text = <<>> THEN Pass
        ELSE IF ~auth.present \/ auth.scheme # "Basic" THEN Deny("Authentication required")
        ELSE IF Len(parts) >= 2 /\ parts[2] = pw.text
             THEN [Pass EXCEPT !.authenticated = TRUE]
        ELSE Deny("Invalid credentials")

\* The body a route handler sends.  The dashboard page prints config.key and
\* config.wallet (or 'Not set'); the JSON routes print neither.
Handler(route, cfg) ==
    IF route = "/"
    THEN [kind |-> "html", key |-> OrElse(cfg.key, "Not set"),
          wallet |-> OrElse(cfg.wallet, "Not set")]
    ELSE [kind |-> "json", key |-> Undefined, wallet |-> Undefined]

\* One request through the middleware and, if passed on, the handler.
Serve(cfg, pw, route, auth) ==
    LET a == authenticateRequest(pw, auth)
    IN  IF a.next
        THEN [status |-> 200, challenge |-> FALSE, body |-> Handler(route, cfg),
              handlerRan |-> TRUE]
        ELSE [status |-> a.status, challenge |-> a.challenge,
              body |-> [kind |-> a.body, key |-> Undefined, wallet |-> Undefined],
              handlerRan |-> FALSE]

\* Keys and wallets of the configs the dashboard is started with.
DashboardConfigs ==
    [started : {TRUE}, key : {Undefined, "11111111-2222-4333-8444-555555555555"},
     wallet : {Undefined, "0xAB"}]

\* startWebGUI(): loads the config once and registers the routes.
StartWebGUI(cfg) ==
    /\ ~guiConfig.started
    /\ guiConfig' = cfg
    /\ UNCHANGED <<savedPassword, request, response, supervisorVars, unitVars, telemetryVars, restVars>>

\* The set-password command (or init): the config file's dashboardPassword
\* is set, changed or removed, also while the dashboard runs.
SetDashboardPassword(pw) ==
    /\ request = NoHttpRequest
    /\ pw # savedPassword
    /\ savedPassword' = pw
    /\ UNCHANGED <<guiConfig, request, response, supervisorVars, unitVars, telemetryVars, restVars>>

\* A request arrives on a gated route and is answered.
HttpRequest(route, auth) ==
    /\ guiConfig.started
    /\ request = NoHttpRequest
    /\ request' = [route |-> route, auth |-> auth]
    /\ response' = Serve(guiConfig, savedPassword, route, auth)
    /\ UNCHANGED <<guiConfig, savedPassword, supervisorVars, unitVars, telemetryVars, restVars>>

\* The connection is closed; the next request can arrive.
Close ==
    /\ request # NoHttpRequest
    /\ request' = NoHttpRequest
    /\ response' = NoResponse
    /\ UNCHANGED <<guiConfig, savedPassword, supervisorVars, unitVars, telemetryVars, restVars>>

NextDashboard ==
    \/ \E cfg \in DashboardConfigs : StartWebGUI(cfg)
    \/ \E pw \in {NoPassword} \cup {[set |-> TRUE, text |-> t] : t \in Passwords} :
            SetDashboardPassword(pw)
    \/ \E route \in GatedRoutes, auth \in AuthHeaders : HttpRequest(route, auth)
    \/ Close

SpecDashboard == Init /\ [][NextDashboard]_vars

----------------------------------------------------------------------------
(* Properties of the web dashboard *)

Served == request # NoHttpRequest

\* The password part of a Basic credential: all that follows the first colon.
PasswordPart(creds) == SubSeq(creds, FirstColon(creds) + 1, Len(creds))

CarriesPassword(auth, pw) ==
    /\ auth.present /\ auth.scheme = "Basic"
    /\ HasColon(auth.creds)
    /\ PasswordPart(auth.creds) = pw.text

\* C15 as stated: with a password configured, a request is passed to its
\* handler if and only if it carries a Basic credential whose password part
\* equals the configured password, for every username and every password
\* (also one containing ':'); every other request gets 401 with a challenge
\* and the handler is not run.  With no password every request passes.
C15_AsStated ==
    Served =>
        IF savedPassword.set
        THEN /\ response.handlerRan = CarriesPassword(request.auth, savedPassword)
             /\ ~response.handlerRan => response.status = 401 /\ response.challenge
        ELSE response.handlerRan

\* t occurs in str as a contiguous run of characters.
Occurs(t, str) ==
    \E i \in 1 .. Len(str) - Len(t) + 1 : SubSeq(str, i, i + Len(t) - 1) = t

\* The caller presents nothing that contains the configured password.
Unauthenticated ==
    /\ Served /\ savedPassword.set
    /\ ~(request.auth.present /\ request.auth.scheme = "Basic"
            /\ Occurs(savedPassword.text, request.auth.creds))

----------------------------------------------------------------------------
(* Two start() invocations for the same container name.  Each is a process *)
(* of its own; what they share is the container runtime, which refuses a   *)
(* second container under a name in use.  The config is usable and the     *)
(* runtime available in both, so each begins at the running-containers     *)
(* query.                                                                  *)

Step(p, to, sent) ==
    /\ ipc' = [ipc EXCEPT ![p] = to]
    /\ issued' = [issued EXCEPT ![p] = issued[p] \o sent]

\* `docker ps --filter name=synchronizer-cli`: the runtime's answer at the
\* time of the query; a failed query is swallowed and start-up continues.
RacePs(p, fail) ==
    /\ ipc[p] = "idle"
    /\ IF container.running /\ ~fail
       THEN Step(p, "attached", <<"ps", "logs">>)
       ELSE Step(p, "checked", <<"ps">>)
    /\ UNCHANGED <<container, iexit>>
    /\ UNCHANGED <<supervisorVars, unitVars, telemetryVars, dashboardVars,
                   loopVars, monitorVars, webVars>>

\* The freshness check and, when it asks for one, the pull.
RaceFreshness(p, pull) ==
    /\ ipc[p] = "checked"
    /\ Step(p, "ready", IF pull THEN <<"images", "pull">> ELSE <<"images">>)
    /\ UNCHANGED <<container, iexit>>
    /\ UNCHANGED <<supervisorVars, unitVars, telemetryVars, dashboardVars,
                   loopVars, monitorVars, webVars>>

\* spawn('docker', ['run', '--rm', '--name', containerName, ...]): the
\* runtime starts the container unless the name is in use, in which case the
\* docker client fails.
RaceRun(p) ==
    /\ ipc[p] = "ready"
    /\ IF container.running
       THEN /\ Step(p, "refused", <<"run">>)
            /\ container' = container
       ELSE /\ Step(p, "running", <<"run">>)
            /\ container' = [running |-> TRUE, owner |-> p]
    /\ UNCHANGED iexit
    /\ UNCHANGED <<supervisorVars, unitVars, telemetryVars, dashboardVars,
                   loopVars, monitorVars, webVars>>

\* Exit code of a docker client whose container could not be created.
RefusedCode == 125

\* proc.on('exit'): the docker client of a refused run ends with 125; the
\* client of a started container ends when the container does.
RaceChildExit(p, code) ==
    /\ \/ ipc[p] = "refused" /\ code = RefusedCode /\ container' = container
       \/ /\ ipc[p] = "running"
          /\ code \in {0, 1}
          /\ container' = [running |-> FALSE, owner |-> 0]
    /\ Step(p, "exited", <<>>)
    /\ iexit' = [iexit EXCEPT ![p] = code]
    /\ UNCHANGED <<supervisorVars, unitVars, telemetryVars, dashboardVars,
                   loopVars, monitorVars, webVars>>

\* logProc.on('exit'): `docker logs -f` ends once the container has stopped.
RaceLogExit(p) ==
    /\ ipc[p] = "attached"
    /\ ~container.running
    /\ Step(p, "exited", <<>>)
    /\ iexit' = [iexit EXCEPT ![p] = 0]
    /\ UNCHANGED container
    /\ UNCHANGED <<supervisorVars, unitVars, telemetryVars, dashboardVars,
                   loopVars, monitorVars, webVars>>

\* cleanup() on SIGINT / SIGTERM: `docker stop synchronizer-cli`, exit 0.
RaceSignal(p) ==
    /\ ipc[p] \in {"attached", "running"}
    /\ Step(p, "exited", <<"stop">>)
    /\ container' = [running |-> FALSE, owner |-> 0]
    /\ iexit' = [iexit EXCEPT ![p] = 0]
    /\ UNCHANGED <<supervisorVars, unitVars, telemetryVars, dashboardVars,
                   loopVars, monitorVars, webVars>>

NextRace ==
    \/ \E p \in Invocations, fail \in BOOLEAN : RacePs(p, fail)
    \/ \E p \in Invocations, pull \in BOOLEAN : RaceFreshness(p, pull)
    \/ \E p \in Invocations : RaceRun(p)
    \/ \E p \in Invocations, code \in {0, 1, RefusedCode} : RaceChildExit(p, code)
    \/ \E p \in Invocations : RaceLogExit(p)
    \/ \E p \in Invocations : RaceSignal(p)

SpecRace == Init /\ [][NextRace]_vars

IssuedBy(p, c) == \E i \in DOMAIN issued[p] : issued[p][i] = c

\* C21, as stated: of two start() invocations for the same container name at
\* most one issues a run command; the other attaches to the running
\* container.
C21_AsStated ==
    Cardinality({p \in Invocations : IssuedBy(p, "run")}) <= 1

----------------------------------------------------------------------------
(* The supervisor's event loop once start() has returned: the signal       *)
(* listeners and the child's listeners are registered, and every event the *)
(* process receives waits in the loop's queue until the listener of the    *)
(* event before it has returned.  A listener that calls process.exit ends  *)
(* the process with the events behind it undispatched.                     *)

Pending(kind) == \E i \in DOMAIN queue : queue[i].kind = kind

\* start() has spawned `docker run` ("running") or `docker logs -f`
\* ("attached") and registered its listeners.
LoopBegin(mode) ==
    /\ lpc = "idle"
    /\ lpc' = mode
    /\ UNCHANGED <<queue, lend>>
    /\ UNCHANGED <<supervisorVars, unitVars, telemetryVars, dashboardVars,
                   raceVars, monitorVars, webVars>>

\* SIGINT or SIGTERM reaches the process.
DeliverSignal(sig) ==
    /\ lpc \in {"running", "attached"}
    /\ ~Pending("signal")
    /\ queue' = Append(queue, Event("signal", sig, NoOutcome))
    /\ UNCHANGED <<lpc, lend>>
    /\ UNCHANGED <<supervisorVars, unitVars, telemetryVars, dashboardVars,
                   raceVars, monitorVars, webVars>>

\* The child process has ended: its 'exit' event is queued.
DeliverChildExit(o) ==
    /\ lpc \in {"running", "attached"}
    /\ ~Pending("exit") /\ ~Pending("error")
    /\ queue' = Append(queue, Event("exit", "none", o))
    /\ UNCHANGED <<lpc, lend>>
    /\ UNCHANGED <<supervisorVars, unitVars, telemetryVars, dashboardVars,
                   raceVars, monitorVars, webVars>>

\* The docker binary could not be spawned: the child's 'error' event is
\* queued.  Only the launched child has an 'error' listener.
DeliverChildError ==
    /\ lpc = "running"
    /\ ~Pending("exit") /\ ~Pending("error")
    /\ queue' = Append(queue, Event("error", "none", NoOutcome))
    /\ UNCHANGED <<lpc, lend>>
    /\ UNCHANGED <<supervisorVars, unitVars, telemetryVars, dashboardVars,
                   raceVars, monitorVars, webVars>>

\* cleanup(): `docker stop` runs synchronously, then process.exit(0).
DispatchSignal(stopOk) ==
    /\ lpc \in {"running", "attached"}
    /\ queue # <<>> /\ Head(queue).kind = "signal"
    /\ lpc' = "exited"
    /\ queue' = <<>>
    /\ lend' = LoopEnded(lpc, "signal", CleanupExitCode(stopOk), Head(queue).sig, NoOutcome,
                         stopOk, Tail(queue))
    /\ UNCHANGED <<supervisorVars, unitVars, telemetryVars, dashboardVars,
                   raceVars, monitorVars, webVars>>

\* proc.on('exit') / logProc.on('exit'): process.exit(code).
DispatchChildExit ==
    /\ lpc \in {"running", "attached"}
    /\ queue # <<>> /\ Head(queue).kind = "exit"
    /\ lpc' = "exited"
    /\ queue' = <<>>
    /\ lend' = LoopEnded(lpc, "exit", ExitCodeOf(Head(queue).o), "none", Head(queue).o,
                         FALSE, Tail(queue))
    /\ UNCHANGED <<supervisorVars, unitVars, telemetryVars, dashboardVars,
                   raceVars, monitorVars, webVars>>

\* proc.on('error'): process.exit(1).
DispatchChildError ==
    /\ lpc = "running"
    /\ queue # <<>> /\ Head(queue).kind = "error"
    /\ lpc' = "exited"
    /\ queue' = <<>>
    /\ lend' = LoopEnded(lpc, "error", 1, "none", NoOutcome, FALSE, Tail(queue))
    /\ UNCHANGED <<supervisorVars, unitVars, telemetryVars, dashboardVars,
                   raceVars, monitorVars, webVars>>

NextLoop ==
    \/ \E mode \in {"running", "attached"} : LoopBegin(mode)
    \/ \E sig \in {"SIGINT", "SIGTERM"} : DeliverSignal(sig)
    \/ \E o \in ChildOutcomes : DeliverChildExit(o)
    \/ DeliverChildError
    \/ \E stopOk \in BOOLEAN : DispatchSignal(stopOk)
    \/ DispatchChildExit
    \/ DispatchChildError

SpecLoop == Init /\ [][NextLoop]_vars

\* A signal had reached the process when it ended.
SignalDelivered ==
    lend.by = "signal" \/ \E i \in DOMAIN lend.pending : lend.pending[i].kind = "signal"

\* C29, as stated: once an interrupt or terminate signal has been delivered
\* to a supervisor that launched or attached to a container, the process
\* exit code is 0 in every order of the signal listener and the child's
\* exit event.
C29_AsStated ==
    (lpc = "exited" /\ SignalDelivered) => lend.code = 0

\* C29, amended: when the signal listener is dispatched the exit code is 0,
\* whatever the stop command did and whatever exit event of the child waits
\* behind it; the exit code differs from 0 after a signal was delivered only
\* when an event of the child was queued ahead of the signal, and it is then
\* the child's code (1 for a spawn error).
C29_ListenerDecides ==
    lpc = "exited" =>
        /\ lend.by = "signal" => lend.code = 0
        /\ lend.by = "exit" => lend.code = ExitCodeOf(lend.o)
        /\ (SignalDelivered /\ lend.code # 0) =>
                /\ lend.by \in {"exit", "error"}
                /\ Len(lend.pending) = 1
        /\ (lend.by = "exit" /\ lend.o.signal # "none") => lend.code = 0

C29_Witness ==
    /\ lpc = "exited" /\ lend.mode = "running" /\ lend.by = "signal" /\ ~lend.stopOk
    /\ lend.pending # <<>> /\ lend.pending[1].kind = "exit"
    /\ lend.pending[1].o.code = 1
    /\ lend.code = 0

----------------------------------------------------------------------------
(* Image monitor: startImageMonitoring().  Time is counted in minutes; a   *)
(* check (two local image queries) takes no time at that grain.            *)

\* monitoringConfig.checkInterval, in minutes.
CheckInterval == 30

\* The monitor is followed for this many minutes.
MaxClock == 65

\* Exit code of Node's default SIGINT behaviour, in force while no listener
\* is registered: 128 + 2.
DefaultSigintCode == 130

\* performCheck(): one freshness query per monitored image; updatesFound
\* counts those that ask for a pull.  autoUpdate is false: nothing is pulled.
UpdatesFound(q1, q2) ==
    (IF isNewDockerImageAvailable(q1) THEN 1 ELSE 0)
    + (IF isNewDockerImageAvailable(q2) THEN 1 ELSE 0)

\* startImageMonitoring() up to `await performCheck()`: the initial check
\* runs; no signal listener is registered yet.
MonitorStart(q1, q2) ==
    /\ mpc = "idle"
    /\ mpc' = "initial"
    /\ checkCount' = checkCount + 1
    /\ updatesFound' = UpdatesFound(q1, q2)
    /\ UNCHANGED <<clock, nextDue, interrupted, mend>>
    /\ UNCHANGED <<supervisorVars, unitVars, telemetryVars, dashboardVars,
                   raceVars, loopVars, webVars>>

\* The initial check has returned: setInterval(performCheck, checkInterval)
\* and process.on('SIGINT', ...).
MonitorArmed ==
    /\ mpc = "initial"
    /\ mpc' = "waiting"
    /\ nextDue' = clock + CheckInterval
    /\ UNCHANGED <<checkCount, updatesFound, clock, interrupted, mend>>
    /\ UNCHANGED <<supervisorVars, unitVars, telemetryVars, dashboardVars,
                   raceVars, loopVars, webVars>>

\* A minute passes while the event loop is idle.
Tick ==
    /\ mpc = "waiting" /\ ~interrupted
    /\ clock < nextDue /\ clock < MaxClock
    /\ clock' = clock + 1
    /\ UNCHANGED <<mpc, checkCount, updatesFound, nextDue, interrupted, mend>>
    /\ UNCHANGED <<supervisorVars, unitVars, telemetryVars, dashboardVars,
                   raceVars, loopVars, webVars>>

\* The interval timer fires: performCheck() runs again and the timer is
\* re-armed one interval later.
TimerFire(q1, q2) ==
    /\ mpc = "waiting" /\ ~interrupted
    /\ clock = nextDue
    /\ mpc' = "checking"
    /\ checkCount' = checkCount + 1
    /\ updatesFound' = UpdatesFound(q1, q2)
    /\ nextDue' = clock + CheckInterval
    /\ UNCHANGED <<clock, interrupted, mend>>
    /\ UNCHANGED <<supervisorVars, unitVars, telemetryVars, dashboardVars,
                   raceVars, loopVars, webVars>>

\* performCheck() returns to the event loop.
CheckDone ==
    /\ mpc = "checking"
    /\ mpc' = "waiting"
    /\ UNCHANGED <<checkCount, updatesFound, clock, nextDue, interrupted, mend>>
    /\ UNCHANGED <<supervisorVars, unitVars, telemetryVars, dashboardVars,
                   raceVars, loopVars, webVars>>

\* An interrupt signal reaches the process.  Before the listener is
\* registered Node's default behaviour ends the process; afterwards the
\* signal waits for the event loop.
Interrupt ==
    /\ mpc \in {"initial", "waiting", "checking"}
    /\ ~interrupted
    /\ IF mpc = "initial"
       THEN /\ mpc' = "exited"
            /\ mend' = MonitorEnded("default", DefaultSigintCode, clock)
            /\ interrupted' = interrupted
       ELSE /\ interrupted' = TRUE
            /\ UNCHANGED <<mpc, mend>>
    /\ UNCHANGED <<checkCount, updatesFound, clock, nextDue>>
    /\ UNCHANGED <<supervisorVars, unitVars, telemetryVars, dashboardVars,
                   raceVars, loopVars, webVars>>

\* The SIGINT listener: clearInterval(monitoringInterval), process.exit(0).
HandleInterrupt ==
    /\ mpc = "waiting" /\ interrupted
    /\ nextDue' = 0
    /\ mpc' = "exited"
    /\ mend' = MonitorEnded("listener", 0, clock)
    /\ UNCHANGED <<checkCount, updatesFound, clock, interrupted>>
    /\ UNCHANGED <<supervisorVars, unitVars, telemetryVars, dashboardVars,
                   raceVars, loopVars, webVars>>

NextMonitor ==
    \/ \E q1, q2 \in ImageQueryOutcomes : MonitorStart(q1, q2)
    \/ MonitorArmed
    \/ Tick
    \/ \E q1, q2 \in ImageQueryOutcomes : TimerFire(q1, q2)
    \/ CheckDone
    \/ Interrupt
    \/ HandleInterrupt

SpecMonitor == Init /\ [][NextMonitor]_vars

\* C26, as stated: the monitoring loop performs one freshness check
\* immediately and then one per interval; after an interrupt signal the
\* interval is cancelled, no further check starts, and the process exits
\* with code 0.
C26_AsStated ==
    /\ mpc # "idle" => checkCount >= 1
    /\ mpc \in {"waiting", "checking"} =>
            /\ checkCount \in {clock \div CheckInterval, 1 + clock \div CheckInterval}
            /\ nextDue = CheckInterval * checkCount
    /\ interrupted => mpc \in {"waiting", "checking", "exited"}
    /\ mpc = "exited" =>
            /\ mend.code = 0
            /\ nextDue = 0
            /\ checkCount \in {mend.at \div CheckInterval, 1 + mend.at \div CheckInterval}

----------------------------------------------------------------------------
(* Web listeners: the port search, the two listen() calls and the signal   *)
(* handling of startWebGUI().                                              *)

\* findAvailablePort: maxAttempts
maxAttempts == 100

\* The start ports startWebGUI() passes to findAvailablePort.
GuiStartPort == 3000
MetricsStartPort == 3001
AltMetricsStartPort == 3002

\* Exit code of Node's default SIGTERM behaviour: 128 + 15.
DefaultSigtermCode == 143

\* Sets of ports held by other processes: every subset of the first five
\* ports, and runs long enough to exhaust a search.
BusySets ==
    (SUBSET (GuiStartPort .. GuiStartPort + 4))
    \cup {GuiStartPort .. GuiStartPort + maxAttempts - 1,
          GuiStartPort .. GuiStartPort + maxAttempts,
          MetricsStartPort .. MetricsStartPort + maxAttempts - 1,
          MetricsStartPort .. MetricsStartPort + maxAttempts,
          AltMetricsStartPort .. AltMetricsStartPort + maxAttempts - 1}

\* tryPort(port): gives up once maxAttempts ports were tried, else probes the
\* port; the probe server is closed again before the port is resolved.
RECURSIVE tryPort(_, _, _, _)
tryPort(startPort, port, attempts, b) ==
    IF attempts >= maxAttempts
    THEN [start |-> startPort, ok |-> FALSE, port |-> 0, attempts |-> attempts]
    ELSE IF port \in b
    THEN tryPort(startPort, port + 1, attempts + 1, b)
    ELSE [start |-> startPort, ok |-> TRUE, port |-> port, attempts |-> attempts + 1]

findAvailablePort(startPort, b) == tryPort(startPort, startPort, 0, b)

\* The start port of the metrics search.
MetricsSearchStart(gui) ==
    IF gui = MetricsStartPort THEN AltMetricsStartPort ELSE MetricsStartPort

\* startWebGUI() up to the two awaited port searches.  A rejected search is
\* an unhandled rejection of startWebGUI(): the process ends with code 1.
FindPorts(b) ==
    /\ wpc = "idle"
    /\ busy' = b
    /\ LET g == findAvailablePort(GuiStartPort, b)
           m == findAvailablePort(MetricsSearchStart(g.port), b)
       IN  IF ~g.ok
           THEN /\ searches' = <<g>>
                /\ wpc' = "exited" /\ wend' = WebEnded("rejected", 1)
                /\ UNCHANGED <<guiPort, metricsPort>>
           ELSE IF ~m.ok
           THEN /\ searches' = <<g, m>>
                /\ guiPort' = g.port
                /\ wpc' = "exited" /\ wend' = WebEnded("rejected", 1)
                /\ UNCHANGED metricsPort
           ELSE /\ searches' = <<g, m>>
                /\ guiPort' = g.port /\ metricsPort' = m.port
                /\ wpc' = "ports" /\ wend' = wend
    /\ UNCHANGED <<bound, closed>>
    /\ UNCHANGED <<supervisorVars, unitVars, telemetryVars, dashboardVars,
                   raceVars, loopVars, monitorVars>>

\* guiApp.listen(guiPort), metricsApp.listen(metricsPort) and the SIGINT
\* listener.  A port that is taken makes the server emit 'error', for which
\* nothing listens: the process ends with code 1.
Listen ==
    /\ wpc = "ports"
    /\ IF metricsPort = guiPort
       THEN /\ bound' = [gui |-> guiPort, metrics |-> 0]
            /\ wpc' = "exited" /\ wend' = WebEnded("listen-error", 1)
       ELSE /\ bound' = [gui |-> guiPort, metrics |-> metricsPort]
            /\ wpc' = "listening" /\ wend' = wend
    /\ UNCHANGED <<busy, guiPort, metricsPort, searches, closed>>
    /\ UNCHANGED <<supervisorVars, unitVars, telemetryVars, dashboardVars,
                   raceVars, loopVars, monitorVars>>

\* A signal reaches the web process.  Only SIGINT has a listener, and only
\* once the servers were started: it closes both servers and exits 0.
\* Everything else is Node's default behaviour.
WebSignal(sig) ==
    /\ wpc \in {"ports", "listening"}
    /\ wpc' = "exited"
    /\ IF wpc = "listening" /\ sig = "SIGINT"
       THEN closed' = {"gui", "metrics"} /\ wend' = WebEnded(sig, 0)
       ELSE /\ closed' = closed
            /\ wend' = WebEnded(sig, IF sig = "SIGINT" THEN DefaultSigintCode
                                     ELSE DefaultSigtermCode)
    /\ UNCHANGED <<busy, guiPort, metricsPort, searches, bound>>
    /\ UNCHANGED <<supervisorVars, unitVars, telemetryVars, dashboardVars,
                   raceVars, loopVars, monitorVars>>

NextWeb ==
    \/ \E b \in BusySets : FindPorts(b)
    \/ Listen
    \/ \E sig \in {"SIGINT", "SIGTERM"} : WebSignal(sig)

SpecWeb == Init /\ [][NextWeb]_vars

\* C27, as stated: the telemetry HTTP service closes both of its listeners,
\* dashboard and metrics, before the process exits on an interrupt signal
\* and on a terminate signal.
C27_AsStated ==
    (wpc = "exited" /\ wend.by \in {"SIGINT", "SIGTERM"} /\ bound.gui # 0) =>
        closed = {"gui", "metrics"}

\* C30, as stated: for every set of busy ports the dashboard port and the
\* metrics port chosen by startWebGUI are different, every port search ends
\* after at most 100 attempts, resolving a port not below its start port or
\* rejecting, and the two listeners are never bound to the same port.
C30_AsStated ==
    /\ (guiPort # 0 /\ metricsPort # 0) => guiPort # metricsPort
    /\ \A i \in DOMAIN searches :
            /\ searches[i].attempts <= maxAttempts
            /\ searches[i].ok => searches[i].port >= searches[i].start
    /\ (bound.gui # 0 /\ bound.metrics # 0) => bound.gui # bound.metrics

====
